---- MODULE Spec2Model ----
(***************************************************************************)
(* Verification model of FPLayCity: the season replay engine               *)
(* (src/fpl/models/season.py, src/fpl/models/stats.py,                     *)
(* src/fpl/aggregate.py) and the FotMob <-> FPL player name resolver       *)
(* (src/fotmob/rotation/fotmob_adapter.py).                                *)
(***************************************************************************)
EXTENDS Integers, Sequences, FiniteSets, TLC

(***************************************************************************)
(* Bounds of the model.                                                    *)
(***************************************************************************)
MaxCalls == 3
MaxBatch == 2
MaxN == 3

(***************************************************************************)
(* Program constants.                                                      *)
(***************************************************************************)
NumGameweeks == 38
NumFdr == 5

Gameweeks == 1..NumGameweeks
Fdrs == 1..NumFdr
Sides == {"home", "away"}

(***************************************************************************)
(* The immutable collections (Teams, Players, Fixtures, PlayerFixtures)    *)
(* that the replay reads through Query.  Numeric statistics are small      *)
(* naturals.  The data set holds a double gameweek (team 1 plays fixtures  *)
(* 1 and 2 in gameweek 1), a blank gameweek (team 1 has no fixture in      *)
(* gameweek 2 unless fixture 4 is played), a fixture in which a team's     *)
(* summed xG is 0, and a fixture (4) with a player record whose player is  *)
(* not in the Players collection.                                          *)
(***************************************************************************)
Teams == {1, 2, 3}

PlayerTeam == (1 :> 1) @@ (2 :> 1) @@ (3 :> 2) @@ (4 :> 3)

Players == DOMAIN PlayerTeam

TF(t, d, sc) == [team_id |-> t, difficulty |-> d, score |-> sc]

Fixtures ==
  << [fixture_id |-> 1, gameweek |-> 1, home |-> TF(1, 2, 1), away |-> TF(2, 4, 0)],
     [fixture_id |-> 2, gameweek |-> 1, home |-> TF(3, 3, 0), away |-> TF(1, 3, 0)],
     [fixture_id |-> 3, gameweek |-> 2, home |-> TF(2, 5, 2), away |-> TF(3, 1, 1)],
     [fixture_id |-> 4, gameweek |-> 2, home |-> TF(1, 3, 0), away |-> TF(2, 3, 0)],
     [fixture_id |-> 5, gameweek |-> 3, home |-> TF(1, 1, 3), away |-> TF(3, 5, 0)] >>

FixtureIds == DOMAIN Fixtures

PF(p, f, gw, h, mp, xg, xa, dc, pts) ==
  [player_id |-> p, fixture_id |-> f, gameweek |-> gw,
   was_home |-> h, minutes |-> mp, expected_goals |-> xg,
   expected_assists |-> xa, defensive_contribution |-> dc,
   total_points |-> pts]

PlayerFixtures ==
  << PF(1, 1, 1, TRUE, 90, 2, 0, 1, 6),
     PF(2, 1, 1, TRUE, 30, 1, 1, 0, 2),
     PF(3, 1, 1, FALSE, 90, 0, 0, 2, 1),
     PF(4, 2, 1, TRUE, 90, 0, 0, 3, 2),
     PF(1, 2, 1, FALSE, 60, 0, 0, 1, 1),
     PF(3, 3, 2, TRUE, 90, 1, 1, 0, 5),
     PF(4, 3, 2, FALSE, 90, 1, 0, 1, 3),
     PF(1, 4, 2, TRUE, 90, 0, 0, 1, 2),
     PF(9, 4, 2, FALSE, 90, 0, 0, 0, 1),
     PF(3, 4, 2, FALSE, 90, 0, 0, 1, 2),
     PF(1, 5, 3, TRUE, 90, 3, 1, 0, 9),
     PF(4, 5, 3, FALSE, 90, 0, 0, 2, 1) >>

\* Query.player_fixtures_by_fixture: the records of one fixture, in insertion order
player_fixtures_by_fixture(fid) ==
  SelectSeq([i \in DOMAIN PlayerFixtures |-> i],
            LAMBDA i : PlayerFixtures[i].fixture_id = fid)

\* PlayerFixture.side
side(pf) == IF pf.was_home THEN "home" ELSE "away"

\* PlayerFixture.team_fixture
team_fixture(pf) ==
  IF pf.was_home THEN Fixtures[pf.fixture_id].home ELSE Fixtures[pf.fixture_id].away

\* sum(getattr(pf, field) for pf in pfs)
RECURSIVE SumField(_, _)
SumField(pfs, field) ==
  IF pfs = << >> THEN 0 ELSE PlayerFixtures[Head(pfs)][field] + SumField(Tail(pfs), field)

\* TeamFixture.player_fixtures: PlayerFixtures.get_list(fixture_id, team_id)
TeamFixture_player_fixtures(fid, sd) ==
  SelectSeq(player_fixtures_by_fixture(fid),
            LAMBDA i : side(PlayerFixtures[i]) = sd)

\* TeamFixture.expected_goals / expected_assists / defensive_contribution / total_points
TeamFixture_sum(fid, sd, field) == SumField(TeamFixture_player_fixtures(fid, sd), field)

\* Fixture.home_clean_sheet / away_clean_sheet
home_clean_sheet(f) == IF f.away.score = 0 THEN 1 ELSE 0
away_clean_sheet(f) == IF f.home.score = 0 THEN 1 ELSE 0

(***************************************************************************)
(* Aggregate (src/fpl/aggregate.py).                                       *)
(***************************************************************************)
Aggregate(t, c) == [total |-> t, count |-> c]

\* an addition that counts its right operand as one observation
AggAdd_OneObservation(a, b) == Aggregate(a.total + b.total, a.count + 1)

\* Aggregate.__add__
AggAdd(a, b) == Aggregate(a.total + b.total, a.count + b.count)

(***************************************************************************)
(* StatsAggregate family (src/fpl/models/stats.py).                        *)
(***************************************************************************)
StatKinds == {"clean_sheet_stats", "xg_stats", "xa_stats", "dc_stats", "pts_stats"}
PlayerStatKinds == {"xg_stats", "xa_stats", "dc_stats"}

\* StatsAggregate.__init__
StatsAggregate_init ==
  [fdr_aggregate |-> [fdr \in Fdrs |-> Aggregate(0, 0)],
   side_aggregate |-> [sd \in Sides |-> Aggregate(0, 0)]]

\* FixtureStatsAggregate.__init__
FixtureStatsAggregate_init ==
  [fdr_aggregate |-> [fdr \in Fdrs |-> Aggregate(0, 0)],
   side_aggregate |-> [sd \in Sides |-> Aggregate(0, 0)],
   fixtures |-> [gw \in Gameweeks |-> << >>]]

\* StatsAggregate.total
total(sa) == AggAdd(sa.side_aggregate["home"], sa.side_aggregate["away"])

\* PtsFixtureStatsAggregate.fixture_to_aggregate: the class is imported by
\* season.py from stats.py; it follows the pattern of its four siblings over
\* TeamFixture.total_points
PtsFixtureStatsAggregate_fixture_to_aggregate(f, sd) ==
  Aggregate(TeamFixture_sum(f.fixture_id, sd, "total_points"), 1)

\* <X>FixtureStatsAggregate.fixture_to_aggregate
fixture_to_aggregate(kind, f, sd) ==
  CASE kind = "clean_sheet_stats" ->
         Aggregate(IF sd = "home" THEN home_clean_sheet(f) ELSE away_clean_sheet(f), 1)
    [] kind = "xg_stats" -> Aggregate(TeamFixture_sum(f.fixture_id, sd, "expected_goals"), 1)
    [] kind = "xa_stats" -> Aggregate(TeamFixture_sum(f.fixture_id, sd, "expected_assists"), 1)
    [] kind = "dc_stats" -> Aggregate(TeamFixture_sum(f.fixture_id, sd, "defensive_contribution"), 1)
    [] kind = "pts_stats" -> PtsFixtureStatsAggregate_fixture_to_aggregate(f, sd)

\* FixtureStatsAggregate.add_fixture
add_fixture(sa, f) ==
  [sa EXCEPT !.fixtures[f.gameweek] = Append(@, f.fixture_id)]

\* self.side_aggregate[sd] += aggregate; self.fdr_aggregate[fdr] += aggregate
AddToBuckets(sa, sd, fdr, aggregate) ==
  [sa EXCEPT !.side_aggregate[sd] = AggAdd(@, aggregate),
             !.fdr_aggregate[fdr] = AggAdd(@, aggregate)]

\* add_home_stats that forgets the FDR bucket
add_home_stats_SideOnly(kind, sa, f) ==
  [sa EXCEPT !.side_aggregate["home"] = AggAdd(@, fixture_to_aggregate(kind, f, "home"))]

\* FixtureStatsAggregate.add_home_stats
add_home_stats(kind, sa, f) ==
  AddToBuckets(sa, "home", f.home.difficulty, fixture_to_aggregate(kind, f, "home"))

\* FixtureStatsAggregate.add_away_stats
add_away_stats(kind, sa, f) ==
  AddToBuckets(sa, "away", f.away.difficulty, fixture_to_aggregate(kind, f, "away"))

\* the metric a Player<X>StatsAggregate accumulates
PlayerMetricField(kind) ==
  CASE kind = "xg_stats" -> "expected_goals"
    [] kind = "xa_stats" -> "expected_assists"
    [] kind = "dc_stats" -> "defensive_contribution"

\* Player<X>StatsAggregate.add_player_fixture
PlayerStatsAggregate_add_player_fixture(kind, sa, pf) ==
  AddToBuckets(sa, side(pf), team_fixture(pf).difficulty, Aggregate(pf[PlayerMetricField(kind)], 1))

(***************************************************************************)
(* TeamStats / PlayerStats / Season (src/fpl/models/season.py).            *)
(***************************************************************************)
\* TeamStats.__init__
TeamStats_init == [k \in StatKinds |-> FixtureStatsAggregate_init]

\* PlayerStats.__init__
PlayerStats_init ==
  [fixtures |-> [gw \in Gameweeks |-> << >>],
   xg_stats |-> StatsAggregate_init,
   xa_stats |-> StatsAggregate_init,
   dc_stats |-> StatsAggregate_init]

\* add_fixture_and_stats that routes every fixture to the home side
add_fixture_and_stats_AlwaysHome(ts, team_id, f) ==
  [k \in StatKinds |-> add_home_stats(k, add_fixture(ts[k], f), f)]

\* TeamStats.add_fixture_and_stats (the fixture always belongs to the team
\* when called from Season.play, so the ValueError branch is not taken)
add_fixture_and_stats(ts, team_id, f) ==
  [k \in StatKinds |->
     IF f.home.team_id = team_id
       THEN add_home_stats(k, add_fixture(ts[k], f), f)
       ELSE add_away_stats(k, add_fixture(ts[k], f), f)]

\* PlayerStats.add_player_fixture (pf is PlayerFixtures[i])
add_player_fixture(ps, i, pf) ==
  [fixtures |-> [ps.fixtures EXCEPT ![pf.gameweek] = Append(@, i)],
   xg_stats |-> PlayerStatsAggregate_add_player_fixture("xg_stats", ps.xg_stats, pf),
   xa_stats |-> PlayerStatsAggregate_add_player_fixture("xa_stats", ps.xa_stats, pf),
   dc_stats |-> PlayerStatsAggregate_add_player_fixture("dc_stats", ps.dc_stats, pf)]

\* Season.__init__
Season_init ==
  [gameweek |-> 0,
   stats |-> [k \in StatKinds |-> FixtureStatsAggregate_init],
   team_stats |-> [t \in Teams |-> TeamStats_init],
   player_stats |-> [p \in Players |-> PlayerStats_init]]

\* the loop over Query.player_fixtures_by_fixture in Season.play; looking up
\* player_stats[pf.player_id] raises KeyError for a player that is not in Players
RECURSIVE PlayPlayers(_, _)
PlayPlayers(s, pfs) ==
  IF pfs = << >> THEN [s |-> s, raised |-> "none"]
  ELSE IF PlayerFixtures[Head(pfs)].player_id \notin DOMAIN s.player_stats
         THEN [s |-> s, raised |-> "KeyError"]
         ELSE PlayPlayers(
                [s EXCEPT !.player_stats[PlayerFixtures[Head(pfs)].player_id] =
                            add_player_fixture(@, Head(pfs), PlayerFixtures[Head(pfs)])],
                Tail(pfs))

\* the season-wide part of one iteration of Season.play: both sides of the
\* fixture are added to every season-wide aggregate
SeasonWideAdd(kind, sa, f) ==
  add_away_stats(kind, add_home_stats(kind, add_fixture(sa, f), f), f)

\* the aggregate updates of one iteration of Season.play, in the order of the
\* code: season-wide, home team, away team, then the players
RecordFixture(s, f) ==
  PlayPlayers(
    [s EXCEPT !.stats = [k \in StatKinds |-> SeasonWideAdd(k, @[k], f)],
              !.team_stats[f.home.team_id] = add_fixture_and_stats(@, f.home.team_id, f),
              !.team_stats[f.away.team_id] = add_fixture_and_stats(@, f.away.team_id, f)],
    player_fixtures_by_fixture(f.fixture_id))

\* an iteration of Season.play without the sequence assertion
PlayFixture_NoSequenceCheck(s, f) == RecordFixture(s, f)

\* one iteration of the loop of Season.play
PlayFixture(s, f) ==
  IF f.gameweek # s.gameweek + 1
    THEN [s |-> s, raised |-> "AssertionError"]
    ELSE RecordFixture(s, f)

\* the rest of the loop after an iteration that ended as r
RECURSIVE PlayLoop(_, _)
Continue(r, fixtures) == IF r.raised # "none" THEN r ELSE PlayLoop(r.s, fixtures)

\* Season.play: the loop stops at the first exception, keeping what it has
\* written so far; the counter is incremented only when the loop completes
PlayLoop(s, fixtures) ==
  IF fixtures = << >>
    THEN [s |-> [s EXCEPT !.gameweek = @ + 1], raised |-> "none"]
    ELSE Continue(PlayFixture(s, Fixtures[Head(fixtures)]), Tail(fixtures))

\* Season.play that advances the counter once per fixture of the batch
play_GameweekPerFixture(s, fixtures) ==
  [PlayLoop(s, fixtures) EXCEPT !.s.gameweek = IF @ = s.gameweek THEN @ ELSE s.gameweek + Len(fixtures)]

\* Season.play
play(s, fixtures) == PlayLoop(s, fixtures)

(***************************************************************************)
(* Float arithmetic of the form queries, as exact rationals <<num, den>>   *)
(* in lowest terms with den > 0.                                           *)
(***************************************************************************)
RECURSIVE GCD(_, _)
GCD(a, b) == IF b = 0 THEN a ELSE GCD(b, a % b)

Abs(x) == IF x < 0 THEN -x ELSE x

Rat(n, d) ==
  LET g == GCD(Abs(n), Abs(d))
      sgn == IF d < 0 THEN -1 ELSE 1
  IN <<sgn * (n \div g), sgn * (d \div g)>>

RZero == <<0, 1>>
RAdd(x, y) == Rat(x[1] * y[2] + y[1] * x[2], x[2] * y[2])
RDiv(x, y) == Rat(x[1] * y[2], x[2] * y[1])

\* Aggregate.p
Aggregate_p(a) == IF a.count = 0 THEN RZero ELSE Rat(a.total, a.count)

\* StatsAggregate.fdr_norm[fdr]
fdr_norm(sa, fdr) ==
  IF Aggregate_p(total(sa)) # RZero
    THEN RDiv(Aggregate_p(sa.fdr_aggregate[fdr]), Aggregate_p(total(sa)))
    ELSE RZero

(***************************************************************************)
(* Rolling-window queries of TeamStats and PlayerStats.  A query returns   *)
(* [raised, total, count]; raised names the exception that ends the call.  *)
(***************************************************************************)
Raise(e) == [raised |-> e, total |-> 0, count |-> 0]
Return(a) == [raised |-> "none", total |-> a.total, count |-> a.count]

\* `for i in range(n): for x in fixtures[last_gw - i]`: the entries visited,
\* in order; the dict lookup raises KeyError for a key outside 1..38
RECURSIVE WindowEntries(_, _, _, _, _)
WindowEntries(fixtures, last_gw, n, i, acc) ==
  IF i >= n THEN [raised |-> "none", items |-> acc]
  ELSE IF (last_gw - i) \notin DOMAIN fixtures
         THEN [raised |-> "KeyError", items |-> acc]
         ELSE WindowEntries(fixtures, last_gw, n, i + 1, acc \o fixtures[last_gw - i])

RECURSIVE SumInt(_, _, _)
SumInt(items, val, k) ==
  IF k = 0 THEN 0 ELSE val[items[k]] + SumInt(items, val, k - 1)

RECURSIVE SumRat(_, _, _)
SumRat(items, val, k) ==
  IF k = 0 THEN RZero ELSE RAdd(val[items[k]], SumRat(items, val, k - 1))

\* a window of n + 1 gameweeks (range(n + 1))
WindowInt_OffByOne(fixtures, last_gw, n, val) ==
  IF ~(n > 0) THEN Raise("AssertionError")
  ELSE LET w == WindowEntries(fixtures, last_gw, n + 1, 0, << >>)
       IN IF w.raised # "none" THEN Raise(w.raised)
          ELSE Return(Aggregate(SumInt(w.items, val, Len(w.items)), Len(w.items)))

\* the body shared by the window queries: assert n > 0, walk the window, sum
WindowInt(fixtures, last_gw, n, val) ==
  IF ~(n > 0) THEN Raise("AssertionError")
  ELSE LET w == WindowEntries(fixtures, last_gw, n, 0, << >>)
       IN IF w.raised # "none" THEN Raise(w.raised)
          ELSE Return(Aggregate(SumInt(w.items, val, Len(w.items)), Len(w.items)))

WindowRat(fixtures, last_gw, n, val) ==
  IF ~(n > 0) THEN Raise("AssertionError")
  ELSE LET w == WindowEntries(fixtures, last_gw, n, 0, << >>)
       IN IF w.raised # "none" THEN Raise(w.raised)
          ELSE Return(Aggregate(SumRat(w.items, val, Len(w.items)), Len(w.items)))

\* the side of fixture f on which team_id plays, as the queries decide it
OwnSide(f, team_id) == IF f.home.team_id = team_id THEN "home" ELSE "away"

\* TeamStats.cs_last
cs_last(s, team_id, n) ==
  WindowInt(s.team_stats[team_id].clean_sheet_stats.fixtures, s.gameweek, n,
            [fid \in FixtureIds |->
               IF Fixtures[fid].home.team_id = team_id
                 THEN home_clean_sheet(Fixtures[fid])
                 ELSE away_clean_sheet(Fixtures[fid])])

\* TeamStats.xg_form
xg_form(s, team_id, n) ==
  WindowInt(s.team_stats[team_id].xg_stats.fixtures, s.gameweek, n,
            [fid \in FixtureIds |->
               TeamFixture_sum(fid, OwnSide(Fixtures[fid], team_id), "expected_goals")])

\* TeamStats.xa_form
xa_form(s, team_id, n) ==
  WindowInt(s.team_stats[team_id].xa_stats.fixtures, s.gameweek, n,
            [fid \in FixtureIds |->
               TeamFixture_sum(fid, OwnSide(Fixtures[fid], team_id), "expected_assists")])

\* TeamStats._get_xg_denom / _get_xa_denom
get_denom(s, team_id, stat, kind, fdr) ==
  IF kind = "own" THEN fdr_norm(s.team_stats[team_id][stat], fdr)
  ELSE fdr_norm(s.stats[stat], fdr)

\* one term of TeamStats.xg_form_norm / xa_form_norm
NormTerm(s, team_id, stat, field, kind, fid) ==
  LET f == Fixtures[fid]
      sd == OwnSide(f, team_id)
      x == TeamFixture_sum(fid, sd, field)
      fdr == IF sd = "home" THEN f.home.difficulty ELSE f.away.difficulty
      denom == get_denom(s, team_id, stat, kind, fdr)
  IN IF denom # RZero THEN RDiv(<<x, 1>>, denom) ELSE RZero

\* TeamStats.xg_form_norm
xg_form_norm(s, team_id, n, kind) ==
  WindowRat(s.team_stats[team_id].xg_stats.fixtures, s.gameweek, n,
            [fid \in FixtureIds |->
               NormTerm(s, team_id, "xg_stats", "expected_goals", kind, fid)])

\* TeamStats.xa_form_norm
xa_form_norm(s, team_id, n, kind) ==
  WindowRat(s.team_stats[team_id].xa_stats.fixtures, s.gameweek, n,
            [fid \in FixtureIds |->
               NormTerm(s, team_id, "xa_stats", "expected_assists", kind, fid)])

Metrics == {"mp", "xg", "xa", "dc", "pts"}

MetricField(metric) ==
  CASE metric = "mp" -> "minutes"
    [] metric = "xg" -> "expected_goals"
    [] metric = "xa" -> "expected_assists"
    [] metric = "dc" -> "defensive_contribution"
    [] metric = "pts" -> "total_points"

\* PlayerStats.last
last(s, player_id, n, metric) ==
  WindowInt(s.player_stats[player_id].fixtures, s.gameweek, n,
            [i \in DOMAIN PlayerFixtures |-> PlayerFixtures[i][MetricField(metric)]])

\* `player_metric.total / team_metric.total if team_metric.count else 0.`;
\* the division of floats by 0.0 raises
ShareOf(player_metric, team_metric) ==
  IF player_metric.raised # "none" THEN [raised |-> player_metric.raised, value |-> RZero]
  ELSE IF team_metric.raised # "none" THEN [raised |-> team_metric.raised, value |-> RZero]
  ELSE IF team_metric.count = 0 THEN [raised |-> "none", value |-> RZero]
  ELSE IF team_metric.total = 0 THEN [raised |-> "ZeroDivisionError", value |-> RZero]
  ELSE [raised |-> "none", value |-> Rat(player_metric.total, team_metric.total)]

\* PlayerStats.share_last
share_last(s, player_id, n, metric) ==
  ShareOf(last(s, player_id, n, metric),
          IF metric = "xg" THEN xg_form(s, PlayerTeam[player_id], n)
          ELSE xa_form(s, PlayerTeam[player_id], n))

(***************************************************************************)
(* Weighted averages of Aggregates (src/fpl/aggregate.py) and the forecast *)
(* models (src/fpl/forecast/models.py).  The Aggregates the models build   *)
(* hold floats: their total and count are rationals.                       *)
(***************************************************************************)
RMul(x, y) == Rat(x[1] * y[1], x[2] * y[2])
RInt(n) == <<n, 1>>
RLess(x, y) == x[1] * y[2] < y[1] * x[2]
RMin(x, y) == IF RLess(y, x) THEN y ELSE x

\* an Aggregate of integers, read as floats
AsFloat(a) == Aggregate(RInt(a.total), RInt(a.count))

\* Aggregate.p over floats
FloatAggregate_p(a) == IF a.count = RZero THEN RZero ELSE RDiv(a.total, a.count)

\* the loop of wa over the first k items <<aggregate, weight>>
RECURSIVE wa_loop(_, _)
wa_loop(items, k) ==
  IF k = 0 THEN [total |-> RZero, count |-> RZero, weight_sum |-> RZero]
  ELSE [total |-> RAdd(wa_loop(items, k - 1).total, RMul(items[k][1].total, items[k][2])),
        count |-> RAdd(wa_loop(items, k - 1).count, RMul(items[k][1].count, items[k][2])),
        weight_sum |-> RAdd(wa_loop(items, k - 1).weight_sum, items[k][2])]

\* wa(*items); the division by a zero weight_sum raises
wa_of(acc) ==
  IF acc.weight_sum = RZero THEN Raise("ZeroDivisionError")
  ELSE Return(Aggregate(RDiv(acc.total, acc.weight_sum), RDiv(acc.count, acc.weight_sum)))

wa(items) == wa_of(wa_loop(items, Len(items)))

\* the difficulty of fixture f for team_id
OwnDifficulty(f, team_id) ==
  IF f.home.team_id = team_id THEN f.home.difficulty ELSE f.away.difficulty

\* AvgFDRCleanSheetModel.predict_for_team
AvgFDRCleanSheetModel_predict_for_team(s, team_id, f) ==
  s.stats["clean_sheet_stats"].fdr_aggregate[OwnDifficulty(f, team_id)]

\* the inner wa of UltimateCleanSheetModel.predict_for_team
Ultimate_team_blend(side_team_agg, total_team_agg) ==
  wa(<< <<AsFloat(side_team_agg), RInt(side_team_agg.count)>>,
        <<AsFloat(total_team_agg), RInt(38 - side_team_agg.count)>> >>)

\* the outer wa of UltimateCleanSheetModel.predict_for_team
Ultimate_mix(fdr_agg, blend) ==
  IF blend.raised # "none" THEN Raise(blend.raised)
  ELSE wa(<< <<AsFloat(fdr_agg), <<3, 5>> >>,
             <<Aggregate(blend.total, blend.count), <<2, 5>> >> >>)

\* UltimateCleanSheetModel.predict_for_team
UltimateCleanSheetModel_predict_for_team(s, team_id, f) ==
  Ultimate_mix(
    AvgFDRCleanSheetModel_predict_for_team(s, team_id, f),
    Ultimate_team_blend(
      s.team_stats[team_id]["clean_sheet_stats"].side_aggregate[OwnSide(f, team_id)],
      total(s.team_stats[team_id]["clean_sheet_stats"])))

\* SimpleXGModel.scale_for_team / SimpleDCModel.scale_for_team
scale_for_team(s, stat, team_id, f) ==
  IF s.team_stats[team_id][stat].fdr_aggregate[OwnDifficulty(f, team_id)].count >= 3
    THEN fdr_norm(s.team_stats[team_id][stat], OwnDifficulty(f, team_id))
    ELSE fdr_norm(s.stats[stat], OwnDifficulty(f, team_id))

\* Aggregate(team_form.p * scale, 1)
ScaledForm(team_form, scale) ==
  IF team_form.raised # "none" THEN Raise(team_form.raised)
  ELSE Return(Aggregate(
         RMul(FloatAggregate_p(Aggregate(team_form.total, RInt(team_form.count))), scale),
         RInt(1)))

\* SimpleXGModel.predict_for_team
SimpleXGModel_predict_for_team(s, team_id, f) ==
  ScaledForm(xg_form_norm(s, team_id, 3, "own"), scale_for_team(s, "xg_stats", team_id, f))

\* SimpleDCModel.predict_for_team
SimpleDCModel_predict_for_team(s, team_id, f) == Raise("NotImplementedError")

\* PlayerFixture.team_id
PlayerFixture_team_id(pf) == team_fixture(pf).team_id

\* Aggregate(team_cs.p * p, 1) with p = min(1., player_mp.p / 60.)
PlayerCS(team_cs, player_mp) ==
  IF team_cs.raised # "none" THEN Raise(team_cs.raised)
  ELSE IF player_mp.raised # "none" THEN Raise(player_mp.raised)
  ELSE Return(Aggregate(
         RMul(FloatAggregate_p(Aggregate(team_cs.total, team_cs.count)),
              RMin(RInt(1), RDiv(Aggregate_p(Aggregate(player_mp.total, player_mp.count)), RInt(60)))),
         RInt(1)))

\* PlayerCSSimpleModel._predict with team_cs_model an UltimateCleanSheetModel
PlayerCSSimpleModel_predict(s, pf, last_n_weeks) ==
  IF pf.player_id \notin DOMAIN s.player_stats THEN Raise("KeyError")
  ELSE PlayerCS(
         UltimateCleanSheetModel_predict_for_team(s, PlayerFixture_team_id(pf), Fixtures[pf.fixture_id]),
         last(s, pf.player_id, last_n_weeks, "mp"))

(***************************************************************************)
(* FotmobAdapter: the FotMob <-> FPL player name resolver                  *)
(* (src/fotmob/rotation/fotmob_adapter.py).                                *)
(*                                                                         *)
(* A display name is a sequence of raw words; _tokenize lowercases a word, *)
(* strips its diacritics and drops a word made of separators only.         *)
(***************************************************************************)
MaxTokens == 3

\* the token _tokenize derives from a raw word ("" when nothing is left of it)
Normalize ==
  [w \in {"Silva", "SILVA", "Bruno", "Bernardo", "Santos", "Emi", "--"} |->
     CASE w \in {"Silva", "SILVA"} -> "silva"
       [] w = "Bruno" -> "bruno"
       [] w = "Bernardo" -> "bernardo"
       [] w = "Santos" -> "santos"
       [] w = "Emi" -> "emi"
       [] w = "--" -> ""]

Tokens == {"silva", "santos", "bruno", "bernardo", "emi"}

\* token[0]: the first character of a token
FirstLetter ==
  [t \in Tokens |->
     CASE t \in {"silva", "santos"} -> "s"
       [] t \in {"bruno", "bernardo"} -> "b"
       [] t = "emi" -> "e"]

\* FotmobAdapter._tokenize
tokenize(name) ==
  SelectSeq([i \in DOMAIN name |-> Normalize[name[i]]], LAMBDA t : t # "")

Range(f) == { f[i] : i \in DOMAIN f }

\* _match_score without the bonus for equal last tokens
match_score_NoLastBonus(fotmob_tokens, fpl_tokens) ==
  IF fpl_tokens = << >> THEN 0
  ELSE LET common == { fotmob_tokens[i] : i \in DOMAIN fotmob_tokens }
                       \cap { fpl_tokens[i] : i \in DOMAIN fpl_tokens }
           nq == Len(fotmob_tokens)
           nc == Len(fpl_tokens)
       IN IF common = {} THEN 0
          ELSE Cardinality(common)
                 + (IF fotmob_tokens[1] = fpl_tokens[1] THEN 3
                    ELSE IF FirstLetter[fotmob_tokens[1]] = FirstLetter[fpl_tokens[1]] THEN 1
                    ELSE 0)
                 + (IF nc >= nq /\ SubSeq(fpl_tokens, 1, nq) = fotmob_tokens THEN 4 ELSE 0)
                 + (IF nc >= nq /\ SubSeq(fpl_tokens, nc - nq + 1, nc) = fotmob_tokens THEN 2 ELSE 0)

\* FotmobAdapter._match_score
match_score(fotmob_tokens, fpl_tokens) ==
  IF fpl_tokens = << >> THEN 0
  ELSE LET common == Range(fotmob_tokens) \cap Range(fpl_tokens)
           nq == Len(fotmob_tokens)
           nc == Len(fpl_tokens)
       IN IF common = {} THEN 0
          ELSE LET has_prefix_match ==
                     nc >= nq /\ SubSeq(fpl_tokens, 1, nq) = fotmob_tokens
                   has_suffix_match ==
                     nc >= nq /\ SubSeq(fpl_tokens, nc - nq + 1, nc) = fotmob_tokens
               IN Cardinality(common)
                    + (IF fotmob_tokens[nq] = fpl_tokens[nc] THEN 5 ELSE 0)
                    + (IF fotmob_tokens[1] = fpl_tokens[1] THEN 3
                       ELSE IF FirstLetter[fotmob_tokens[1]] = FirstLetter[fpl_tokens[1]] THEN 1
                       ELSE 0)
                    + (IF has_prefix_match THEN 4 ELSE 0)
                    + (IF has_suffix_match THEN 2 ELSE 0)

\* FotmobAdapter._player_token_variants
player_token_variants(player) ==
  LET full_tokens == tokenize(player.full_name)
      web_tokens == tokenize(player.web_name)
      v1 == IF full_tokens # << >> THEN << full_tokens >> ELSE << >>
      v2 == IF web_tokens # << >> /\ web_tokens \notin Range(v1) THEN Append(v1, web_tokens) ELSE v1
  IN IF v2 = << >> THEN << << >> >> ELSE v2

Max(S) == CHOOSE x \in S : \A y \in S : y <= x

\* max(_match_score(tokens, variant) for variant in variants, default=0)
BestScore(fotmob_tokens, variants) ==
  IF variants = << >> THEN 0
  ELSE Max({ match_score(fotmob_tokens, variants[i]) : i \in DOMAIN variants })

\* list.sort(key=lambda pair: (-pair[0], pair[1])) of <<score, player_id>> pairs
RECURSIVE SortScored(_)
SortScored(S) ==
  IF S = {} THEN << >>
  ELSE LET first == CHOOSE a \in S : \A b \in S :
                      a[1] > b[1] \/ (a[1] = b[1] /\ a[2] <= b[2])
       IN << first >> \o SortScored(S \ {first})

\* _resolve_best_match that returns the first of the sorted candidates without the tie check
resolve_best_match_NoTieCheck(fotmob_tokens, index) ==
  LET scored_matches ==
        SortScored({ <<BestScore(fotmob_tokens, index[pid]), pid>> :
                       pid \in { c \in DOMAIN index : BestScore(fotmob_tokens, index[c]) > 0 } })
  IN IF scored_matches = << >> THEN [kind |-> "none", player_id |-> 0]
     ELSE [kind |-> "match", player_id |-> scored_matches[1][2]]

\* FotmobAdapter._resolve_best_match
resolve_best_match(fotmob_tokens, index) ==
  LET scored_matches ==
        SortScored({ <<BestScore(fotmob_tokens, index[pid]), pid>> :
                       pid \in { c \in DOMAIN index : BestScore(fotmob_tokens, index[c]) > 0 } })
  IN IF scored_matches = << >> THEN [kind |-> "none", player_id |-> 0]
     ELSE IF Len(scored_matches) > 1 /\ scored_matches[2][1] = scored_matches[1][1]
            THEN [kind |-> "ambiguous", player_id |-> 0]
            ELSE [kind |-> "match", player_id |-> scored_matches[1][2]]

\* _match_fotmob_player that searches the global roster without trying the team's own first
match_fotmob_player_GlobalOnly(fotmob_name, name_index, fallback_index) ==
  LET tokens == tokenize(fotmob_name)
      global == resolve_best_match(tokens, fallback_index)
  IN IF tokens = << >> THEN [kind |-> "no_tokens", player_id |-> 0, roster |-> "none"]
     ELSE IF global.kind = "ambiguous" THEN [kind |-> "ambiguous", player_id |-> 0, roster |-> "global"]
     ELSE IF global.kind = "match"
            THEN [kind |-> "match", player_id |-> global.player_id, roster |-> "global"]
     ELSE [kind |-> "no_candidate", player_id |-> 0, roster |-> "global"]

\* FotmobAdapter._match_fotmob_player: [kind, player_id, roster]; kind names
\* the ValueError raised, or is "match"
match_fotmob_player(fotmob_name, name_index, fallback_index) ==
  LET tokens == tokenize(fotmob_name)
      own == resolve_best_match(tokens, name_index)
      global == resolve_best_match(tokens, fallback_index)
  IN IF tokens = << >> THEN [kind |-> "no_tokens", player_id |-> 0, roster |-> "none"]
     ELSE IF own.kind = "ambiguous" THEN [kind |-> "ambiguous", player_id |-> 0, roster |-> "team"]
     ELSE IF own.kind = "match" THEN [kind |-> "match", player_id |-> own.player_id, roster |-> "team"]
     ELSE IF global.kind = "ambiguous" THEN [kind |-> "ambiguous", player_id |-> 0, roster |-> "global"]
     ELSE IF global.kind = "match"
            THEN [kind |-> "match", player_id |-> global.player_id, roster |-> "global"]
     ELSE [kind |-> "no_candidate", player_id |-> 0, roster |-> "global"]

(***************************************************************************)
(* Static tables of the adapter, restricted to the three teams of the data *)
(* set, and the FotMob match data the adapter is built from.               *)
(***************************************************************************)
FPL_TEAM_ID_TO_FOTMOB_NAME == (1 :> "Arsenal") @@ (2 :> "Aston Villa") @@ (3 :> "Burnley")

TEAM_NAME_TO_ID == [n \in {"Arsenal", "Aston Villa", "Burnley"} |->
                      CASE n = "Arsenal" -> 9825
                        [] n = "Aston Villa" -> 10252
                        [] n = "Burnley" -> 8191]

Override(ft, fp, t, pl, ig) ==
  [fotmob_team_id |-> ft, fotmob_player_id |-> fp, fpl_team_id |-> t,
   fpl_player_id |-> pl, ignore |-> ig]

\* rotation_config.PLAYER_MAPPING_OVERRIDES (an fpl id of 0 stands for None)
PLAYER_MAPPING_OVERRIDES ==
  << Override(9825, 795179, 1, 5, FALSE),
     Override(10252, 610184, 2, 50, FALSE),
     Override(8602, 1174672, 20, 646, FALSE),
     Override(8602, 1174672, 20, 646, FALSE) >>

\* RotationConfig.included_leagues
included_leagues == {"Premier League"}

FotmobPlayer(id, name) == [id |-> id, name |-> name]

Substitution(pout, pin) == [player_out |-> pout, player_in |-> pin]

\* the match histories handed to the adapter: Arsenal fields players 11 and
\* 12 in a league match and player 13 in a cup match, Aston Villa fields
\* player 610184 and, when `twice`, player 12 as well; Burnley has no match
MatchData(name11, name12, twice) ==
  (9825 :>
     << [match_id |-> 1, event_time |-> 10, league_name |-> "Premier League",
         starters |-> << FotmobPlayer(11, name11) >>,
         benched |-> << FotmobPlayer(12, name12) >>,
         unavailable |-> << FotmobPlayer(0, << "Emi" >>) >>,
         subs_log |-> << Substitution(FotmobPlayer(11, name11), FotmobPlayer(12, name12)) >>],
        [match_id |-> 2, event_time |-> 20, league_name |-> "FA Cup",
         starters |-> << FotmobPlayer(13, << "Santos" >>) >>,
         benched |-> << >>, unavailable |-> << >>, subs_log |-> << >>] >>)
  @@ (10252 :>
     << [match_id |-> 3, event_time |-> 30, league_name |-> "Premier League",
         starters |-> << FotmobPlayer(610184, << "Emi" >>) >>,
         benched |-> IF twice THEN << FotmobPlayer(12, name12) >> ELSE << >>,
         unavailable |-> << >>, subs_log |-> << >>] >>)
  @@ (8191 :> << >>)

FotmobNameChoices ==
  { << "SILVA" >>, << "Bruno", "Silva" >>, << "Bernardo" >>, << "Santos" >>, << "--" >> }

FplNameChoices ==
  { [full_name |-> << "Bruno", "Silva" >>, web_name |-> << "Silva" >>],
    [full_name |-> << "Bernardo", "Silva" >>, web_name |-> << "Bernardo" >>],
    [full_name |-> << "Emi", "Santos" >>, web_name |-> << "Santos" >>],
    [full_name |-> << "--" >>, web_name |-> << "--" >>] }

\* the names each FPL player may carry: a player without any token exists
\* only in team 1, and the player of team 3 is never so
FplNamesOf(pl) ==
  CASE pl \in {1, 2} -> FplNameChoices
    [] pl = 3 -> { nm \in FplNameChoices : tokenize(nm.full_name) # << >> }
    [] pl = 4 -> { nm \in FplNameChoices : "Silva" \in Range(nm.web_name) \/ "Emi" \in Range(nm.full_name) }

OverrideChoices ==
  { << >>,
    << Override(9825, 11, 1, 0, TRUE) >>,
    << Override(9825, 12, 2, 3, FALSE) >>,
    << Override(9825, 11, 1, 0, FALSE) >>,
    << Override(10252, 610184, 2, 3, FALSE), Override(9825, 12, 1, 1, FALSE) >> }

\* a dict assignment d[k] = v on a dict kept as a sequence of <<key, value>> in insertion order
DictPut(d, k, v) ==
  IF \E i \in DOMAIN d : d[i][1] = k
    THEN [i \in DOMAIN d |-> IF d[i][1] = k THEN <<k, v>> ELSE d[i]]
    ELSE Append(d, <<k, v>>)

RECURSIVE PutPlayers(_, _, _)
PutPlayers(d, players, k) ==
  IF k > Len(players) THEN d
  ELSE PutPlayers(IF players[k].id = 0 THEN d ELSE DictPut(d, players[k].id, players[k].name),
                  players, k + 1)

RECURSIVE PutSubs(_, _, _)
PutSubs(d, subs, k) ==
  IF k > Len(subs) THEN d
  ELSE PutSubs(DictPut(DictPut(d, subs[k].player_in.id, subs[k].player_in.name),
                       subs[k].player_out.id, subs[k].player_out.name),
               subs, k + 1)

RECURSIVE CollectMatches(_, _, _)
CollectMatches(d, matches, k) ==
  IF k > Len(matches) THEN d
  ELSE LET m == matches[k]
       IN IF included_leagues # {} /\ m.league_name \notin included_leagues
            THEN CollectMatches(d, matches, k + 1)
            ELSE CollectMatches(
                   PutSubs(PutPlayers(d, m.starters \o m.benched \o m.unavailable, 1), m.subs_log, 1),
                   matches, k + 1)

\* FotmobAdapter._collect_fotmob_players
collect_fotmob_players(by_team, fotmob_team_id) ==
  IF fotmob_team_id \in DOMAIN by_team THEN CollectMatches(<< >>, by_team[fotmob_team_id], 1) ELSE << >>

\* FotmobAdapter._index_overrides: the last override of an id wins
index_overrides(ovs) ==
  [id \in { ovs[i].fotmob_player_id : i \in DOMAIN ovs } |->
     ovs[Max({ i \in DOMAIN ovs : ovs[i].fotmob_player_id = id })]]

\* FotmobAdapter._build_team_mapping, in the order of FPL_TEAM_ID_TO_FOTMOB_NAME
build_team_mapping ==
  [t \in DOMAIN FPL_TEAM_ID_TO_FOTMOB_NAME |-> TEAM_NAME_TO_ID[FPL_TEAM_ID_TO_FOTMOB_NAME[t]]]

\* Query.players_by_team
players_by_team(t) == { pl \in Players : PlayerTeam[pl] = t }

\* the iterations of the two nested loops of _build_player_mappings, in order:
\* <<fpl_team_id, fotmob_team_id, fotmob_player_id, fotmob_name>>
RECURSIVE WorkList(_, _)
WorkList(by_team, t) ==
  IF t \notin DOMAIN build_team_mapping THEN << >>
  ELSE LET fotmob_players == collect_fotmob_players(by_team, build_team_mapping[t])
       IN [i \in DOMAIN fotmob_players |->
             <<t, build_team_mapping[t], fotmob_players[i][1], fotmob_players[i][2]>>]
            \o WorkList(by_team, t + 1)

\* _resolve_fpl_player_id_for_fotmob without the check against an existing mapping
resolve_fpl_player_id_for_fotmob_NoConflictCheck(fotmob_player_id, fotmob_name, name_index, global_index, override_by_fotmob_id, f2f) ==
  LET has_override == fotmob_player_id \in DOMAIN override_by_fotmob_id
      override == override_by_fotmob_id[fotmob_player_id]
      m == match_fotmob_player(fotmob_name, name_index, global_index)
      found == IF has_override
                 THEN [kind |-> "match", player_id |-> override.fpl_player_id, roster |-> "override"]
                 ELSE m
  IN IF has_override /\ override.ignore
       THEN [kind |-> "ignore", player_id |-> 0, roster |-> "override"]
     ELSE IF has_override /\ override.fpl_player_id = 0
       THEN [kind |-> "override_without_id", player_id |-> 0, roster |-> "override"]
     ELSE IF found.kind # "match" THEN found
     ELSE [kind |-> "id", player_id |-> found.player_id, roster |-> found.roster]

\* FotmobAdapter._resolve_fpl_player_id_for_fotmob: kind is "id" (a player
\* id is returned), "ignore" (None is returned) or the error raised
resolve_fpl_player_id_for_fotmob(fotmob_player_id, fotmob_name, name_index, global_index, override_by_fotmob_id, f2f) ==
  LET has_override == fotmob_player_id \in DOMAIN override_by_fotmob_id
      override == override_by_fotmob_id[fotmob_player_id]
      m == match_fotmob_player(fotmob_name, name_index, global_index)
      found == IF has_override
                 THEN [kind |-> "match", player_id |-> override.fpl_player_id, roster |-> "override"]
                 ELSE m
      conflict == /\ fotmob_player_id \in DOMAIN f2f
                  /\ f2f[fotmob_player_id] # found.player_id
  IN IF has_override /\ override.ignore
       THEN [kind |-> "ignore", player_id |-> 0, roster |-> "override"]
     ELSE IF has_override /\ override.fpl_player_id = 0
       THEN [kind |-> "override_without_id", player_id |-> 0, roster |-> "override"]
     ELSE IF found.kind # "match" THEN found
     ELSE IF conflict THEN [kind |-> "conflict", player_id |-> found.player_id, roster |-> found.roster]
     ELSE [kind |-> "id", player_id |-> found.player_id, roster |-> found.roster]

\* get_fotmob_player_id that answers 0 for an unmapped player
get_fotmob_player_id_Default(p2f, fpl_player_id) ==
  IF fpl_player_id \notin DOMAIN p2f
    THEN [raised |-> "none", value |-> 0]
    ELSE [raised |-> "none", value |-> p2f[fpl_player_id]]

\* FotmobAdapter.get_fotmob_player_id
get_fotmob_player_id(p2f, fpl_player_id) ==
  IF fpl_player_id \notin DOMAIN p2f
    THEN [raised |-> "KeyError", value |-> 0]
    ELSE [raised |-> "none", value |-> p2f[fpl_player_id]]

\* FotmobAdapter.get_fpl_player_id_from_fotmob
get_fpl_player_id_from_fotmob(f2f, fotmob_player_id) ==
  IF fotmob_player_id \notin DOMAIN f2f
    THEN [raised |-> "KeyError", value |-> 0]
    ELSE [raised |-> "none", value |-> f2f[fotmob_player_id]]

(***************************************************************************)
(* State.                                                                  *)
(*   season, raised, calls, played: the Season object, the outcome of the  *)
(*     last Season.play call, the calls made and the calls that returned;  *)
(*   q_tokens, c_tokens, score: the arguments and result of _match_score;  *)
(*   matches_by_team, overrides, global_name_index, fotmob_to_fpl,         *)
(*     fpl_to_fotmob: the fields of the FotmobAdapter under construction;  *)
(*   step, status, res: the iterations of _build_player_mappings done, the *)
(*     stage of the construction, and the last iteration's resolution;     *)
(*   lookup: the last call of a lookup method of the constructed adapter   *)
(*     and its outcome;                                                    *)
(*   gameweeks, deadlines, gw_status, event_time, gw_eff: the deadline     *)
(*     table given to build_gameweek_mapper, the sorted list the returned  *)
(*     mapper holds, the stage reached, and the argument and result of the *)
(*     last call of the mapper;                                            *)
(*   aggs, merged: three Aggregate accumulators and the results of merging *)
(*     them with __add__;                                                  *)
(*   coll, add_raised, query: a Collection (items and the maps of its      *)
(*     indices), the outcome of the last add, and the last get_one or      *)
(*     get_list since that add with its outcome;                           *)
(*   rotation_input, rotation, rotation_status, rotation_query: the        *)
(*     arguments of the                                                    *)
(*     RotationAnalyzer constructor (matches_by_team, rotation_config),    *)
(*     the indexes it builds, and the stage reached.                       *)
(***************************************************************************)
VARIABLES season, raised, calls, played,
          q_tokens, c_tokens, score,
          matches_by_team, overrides, global_name_index, fotmob_to_fpl, fpl_to_fotmob,
          step, status, res, lookup,
          gameweeks, deadlines, gw_status, event_time, gw_eff,
          aggs, merged,
          coll, add_raised, query,
          rotation_input, rotation, rotation_status, rotation_query,
          cache, node_log, compute_raises,
          forecast,
          loaded, replayed

seasonVars == <<season, raised, calls, played>>
scoreVars == <<q_tokens, c_tokens, score>>
adapterVars == <<matches_by_team, overrides, global_name_index, fotmob_to_fpl, fpl_to_fotmob,
                 step, status, res, lookup>>
mapperVars == <<gameweeks, deadlines, gw_status, event_time, gw_eff>>
aggregateVars == <<aggs, merged>>
collectionVars == <<coll, add_raised, query>>
rotationVars == <<rotation_input, rotation, rotation_status, rotation_query>>
nodeVars == <<cache, node_log, compute_raises>>
forecastVars == <<forecast>>
replayVars == <<loaded, replayed>>
vars == <<seasonVars, scoreVars, adapterVars, mapperVars, aggregateVars, collectionVars, rotationVars, nodeVars, forecastVars, replayVars>>

\* the variables of the other components, for each component
OtherThanSeason == <<scoreVars, adapterVars, mapperVars, aggregateVars, collectionVars, rotationVars, nodeVars, forecastVars, replayVars>>
OtherThanSeasonAndForecast == <<scoreVars, adapterVars, mapperVars, aggregateVars, collectionVars, rotationVars, nodeVars, replayVars>>
OtherThanScore == <<seasonVars, adapterVars, mapperVars, aggregateVars, collectionVars, rotationVars, nodeVars, forecastVars, replayVars>>
OtherThanAdapter == <<seasonVars, scoreVars, mapperVars, aggregateVars, collectionVars, rotationVars, nodeVars, forecastVars, replayVars>>
OtherThanMapper == <<seasonVars, scoreVars, adapterVars, aggregateVars, collectionVars, rotationVars, nodeVars, forecastVars, replayVars>>
OtherThanAggregate == <<seasonVars, scoreVars, adapterVars, mapperVars, collectionVars, rotationVars, nodeVars, forecastVars, replayVars>>
OtherThanCollection == <<seasonVars, scoreVars, adapterVars, mapperVars, aggregateVars, rotationVars, nodeVars, forecastVars, replayVars>>
OtherThanRotation == <<seasonVars, scoreVars, adapterVars, mapperVars, aggregateVars, collectionVars, nodeVars, forecastVars, replayVars>>
OtherThanNode == <<seasonVars, scoreVars, adapterVars, mapperVars, aggregateVars, collectionVars, rotationVars, forecastVars, replayVars>>
OtherThanForecast == <<seasonVars, scoreVars, adapterVars, mapperVars, aggregateVars, collectionVars, rotationVars, nodeVars, replayVars>>
OtherThanReplay == <<seasonVars, scoreVars, adapterVars, mapperVars, aggregateVars, collectionVars, rotationVars, nodeVars, forecastVars>>

RECURSIVE SeqsUpTo(_, _)
SeqsUpTo(S, n) ==
  IF n = 0 THEN { << >> }
  ELSE LET shorter == SeqsUpTo(S, n - 1)
       IN shorter \cup { Append(q, x) : q \in { r \in shorter : Len(r) = n - 1 }, x \in S }

Batches == SeqsUpTo(FixtureIds, MaxBatch)

NoForecast == [fn |-> "none", model |-> "none", fixture_id |-> 0, team_id |-> 0, calls |-> 0, out |-> << >>]

NoRes == [kind |-> "none", player_id |-> 0, roster |-> "none", fotmob_player_id |-> 0]

NoLookup == [fn |-> "none", arg |-> 0, raised |-> "none", value |-> 0]

\* a new Season, before any call
SeasonNew ==
  /\ season = Season_init
  /\ raised = "none"
  /\ calls = 0
  /\ played = 0

\* no score computed
ScoreIdle == q_tokens = << >> /\ c_tokens = << >> /\ score = -1

\* no adapter under construction
AdapterIdle ==
  /\ matches_by_team = << >>
  /\ overrides = << >>
  /\ global_name_index = << >>
  /\ fotmob_to_fpl = << >>
  /\ fpl_to_fotmob = << >>
  /\ step = 0
  /\ status = "idle"
  /\ res = NoRes
  /\ lookup = NoLookup

\* no gameweek mapper built
MapperIdle ==
  /\ gameweeks = << >>
  /\ deadlines = << >>
  /\ gw_status = "idle"
  /\ event_time = 0
  /\ gw_eff = -1

\* no Aggregate under test
AggregateIdle ==
  /\ aggs = << >>
  /\ merged = [stage |-> "idle"]

\* no Collection under test
CollectionIdle ==
  /\ coll = [items |-> << >>]
  /\ add_raised = "none"
  /\ query = [fn |-> "idle"]

\* no RotationAnalyzer under test
RotationIdle ==
  /\ rotation_input = [stage |-> "idle"]
  /\ rotation = [stage |-> "idle"]
  /\ rotation_status = "idle"
  /\ rotation_query = [fn |-> "idle"]

\* a node that was never constructed
NodeIdle ==
  /\ cache = << >>
  /\ node_log = << >>
  /\ compute_raises = {}

\* no forecast model called
ForecastIdle == forecast = NoForecast

\* no SeasonNode called
ReplayIdle ==
  /\ loaded = {}
  /\ replayed = [stage |-> "idle"]

\* the other components at rest, for each component
IdleOtherThanSeason == ScoreIdle /\ AdapterIdle /\ MapperIdle /\ AggregateIdle /\ CollectionIdle /\ RotationIdle /\ NodeIdle /\ ForecastIdle /\ ReplayIdle
IdleOtherThanScore == SeasonNew /\ AdapterIdle /\ MapperIdle /\ AggregateIdle /\ CollectionIdle /\ RotationIdle /\ NodeIdle /\ ForecastIdle /\ ReplayIdle
IdleOtherThanAdapter == SeasonNew /\ ScoreIdle /\ MapperIdle /\ AggregateIdle /\ CollectionIdle /\ RotationIdle /\ NodeIdle /\ ForecastIdle /\ ReplayIdle
IdleOtherThanMapper == SeasonNew /\ ScoreIdle /\ AdapterIdle /\ AggregateIdle /\ CollectionIdle /\ RotationIdle /\ NodeIdle /\ ForecastIdle /\ ReplayIdle
IdleOtherThanAggregate == SeasonNew /\ ScoreIdle /\ AdapterIdle /\ MapperIdle /\ CollectionIdle /\ RotationIdle /\ NodeIdle /\ ForecastIdle /\ ReplayIdle
IdleOtherThanCollection == SeasonNew /\ ScoreIdle /\ AdapterIdle /\ MapperIdle /\ AggregateIdle /\ RotationIdle /\ NodeIdle /\ ForecastIdle /\ ReplayIdle
IdleOtherThanRotation == SeasonNew /\ ScoreIdle /\ AdapterIdle /\ MapperIdle /\ AggregateIdle /\ CollectionIdle /\ NodeIdle /\ ForecastIdle /\ ReplayIdle
IdleOtherThanNode == SeasonNew /\ ScoreIdle /\ AdapterIdle /\ MapperIdle /\ AggregateIdle /\ CollectionIdle /\ RotationIdle /\ ForecastIdle /\ ReplayIdle
IdleOtherThanForecast == SeasonNew /\ ScoreIdle /\ AdapterIdle /\ MapperIdle /\ AggregateIdle /\ CollectionIdle /\ RotationIdle /\ NodeIdle /\ ReplayIdle
IdleOtherThanReplay == SeasonNew /\ ScoreIdle /\ AdapterIdle /\ MapperIdle /\ AggregateIdle /\ CollectionIdle /\ RotationIdle /\ NodeIdle /\ ForecastIdle

Init == SeasonNew /\ IdleOtherThanSeason

\* a call Season.play(b)
Play(b) ==
  /\ calls < MaxCalls
  /\ \E r \in { play(season, b) } :
       /\ season' = r.s
       /\ raised' = r.raised
       /\ played' = IF r.raised = "none" THEN played + 1 ELSE played
  /\ calls' = calls + 1
  /\ UNCHANGED OtherThanSeason

Next == \E b \in Batches : Play(b)

Spec == Init /\ [][Next]_vars

(***************************************************************************)
(* _match_score applied to every pair of token lists up to MaxTokens.      *)
(***************************************************************************)
ScoreTokens == {"silva", "santos", "bruno"}

InitScore ==
  /\ IdleOtherThanScore
  /\ q_tokens \in SeqsUpTo(ScoreTokens, MaxTokens)
  /\ c_tokens \in SeqsUpTo(ScoreTokens, MaxTokens)
  /\ score = -1

MatchScore ==
  /\ score = -1
  /\ score' = match_score(q_tokens, c_tokens)
  /\ UNCHANGED <<q_tokens, c_tokens, OtherThanScore>>

NextScore == MatchScore

SpecScore == InitScore /\ [][NextScore]_vars

(***************************************************************************)
(* Construction of a FotmobAdapter: __init__ up to the first iteration of  *)
(* _build_player_mappings is the initial state, each iteration is a step.  *)
(***************************************************************************)
\* FotmobAdapter.__init__: self._overrides = overrides or PLAYER_MAPPING_OVERRIDES
InitAdapter ==
  /\ IdleOtherThanAdapter
  /\ \E name11 \in FotmobNameChoices, name12 \in FotmobNameChoices, twice \in BOOLEAN :
       matches_by_team = MatchData(name11, name12, twice)
  /\ \E ovs \in OverrideChoices :
       overrides = IF ovs = << >> THEN PLAYER_MAPPING_OVERRIDES ELSE ovs
  /\ \E names \in { nm \in [Players -> FplNameChoices] : \A pl \in Players : nm[pl] \in FplNamesOf(pl) } :
       global_name_index = [pl \in Players |-> player_token_variants(names[pl])]
  /\ fotmob_to_fpl = << >>
  /\ fpl_to_fotmob = << >>
  /\ step = 0
  /\ status = "building"
  /\ res = NoRes
  /\ lookup = NoLookup

\* the name index of one team's roster, as _build_player_mappings builds it
name_index_of(t) == [pl \in players_by_team(t) |-> global_name_index[pl]]

\* one iteration of the inner loop of FotmobAdapter._build_player_mappings
ResolveNext ==
  /\ status = "building"
  /\ step < Len(WorkList(matches_by_team, 1))
  /\ LET item == WorkList(matches_by_team, 1)[step + 1]
         r == resolve_fpl_player_id_for_fotmob(item[3], item[4], name_index_of(item[1]),
                                               global_name_index, index_overrides(overrides),
                                               fotmob_to_fpl)
     IN /\ res' = [kind |-> r.kind, player_id |-> r.player_id, roster |-> r.roster,
                   fotmob_player_id |-> item[3]]
        /\ step' = step + 1
        /\ IF r.kind = "id"
             THEN /\ fotmob_to_fpl' = (item[3] :> r.player_id) @@ fotmob_to_fpl
                  /\ fpl_to_fotmob' = (r.player_id :> item[3]) @@ fpl_to_fotmob
             ELSE UNCHANGED <<fotmob_to_fpl, fpl_to_fotmob>>
        /\ status' = IF r.kind \notin {"id", "ignore"} THEN "failed"
                     ELSE IF step + 1 = Len(WorkList(matches_by_team, 1)) THEN "constructed"
                     ELSE "building"
  /\ UNCHANGED <<matches_by_team, overrides, global_name_index, lookup, OtherThanAdapter>>

\* the ids the lookup methods are called with: FotMob players of the match
\* data (13 plays cup matches only) and FPL players (50 is not in Players)
FotmobLookupIds == {11, 12, 13}
FplLookupIds == {1, 3, 50}

\* a call get_fotmob_player_id(x) on the constructed adapter
GetFotmobPlayerId ==
  /\ status = "constructed"
  /\ \E x \in FplLookupIds :
       lookup' = [fn |-> "get_fotmob_player_id", arg |-> x,
                  raised |-> get_fotmob_player_id(fpl_to_fotmob, x).raised,
                  value |-> get_fotmob_player_id(fpl_to_fotmob, x).value]
  /\ UNCHANGED <<matches_by_team, overrides, global_name_index, fotmob_to_fpl, fpl_to_fotmob,
                 step, status, res, OtherThanAdapter>>

\* a call get_fpl_player_id_from_fotmob(x) on the constructed adapter
GetFplPlayerIdFromFotmob ==
  /\ status = "constructed"
  /\ \E x \in FotmobLookupIds :
       lookup' = [fn |-> "get_fpl_player_id_from_fotmob", arg |-> x,
                  raised |-> get_fpl_player_id_from_fotmob(fotmob_to_fpl, x).raised,
                  value |-> get_fpl_player_id_from_fotmob(fotmob_to_fpl, x).value]
  /\ UNCHANGED <<matches_by_team, overrides, global_name_index, fotmob_to_fpl, fpl_to_fotmob,
                 step, status, res, OtherThanAdapter>>

NextAdapter == ResolveNext \/ GetFotmobPlayerId \/ GetFplPlayerIdFromFotmob

SpecAdapter == InitAdapter /\ [][NextAdapter]_vars

(***************************************************************************)
(* build_gameweek_mapper (src/fotmob/rotation/fotmob_adapter.py): the      *)
(* deadline table is a list of deadline times, one per gameweek, in any    *)
(* order; times are small naturals.                                        *)
(***************************************************************************)
MaxDeadlines == 3
MaxTime == 4

\* sorted(): insertion of x into a sorted list, after the entries not above it
RECURSIVE InsertSorted(_, _)
InsertSorted(sorted, x) ==
  IF sorted = << >> THEN << x >>
  ELSE IF x < Head(sorted) THEN << x >> \o sorted
  ELSE << Head(sorted) >> \o InsertSorted(Tail(sorted), x)

RECURSIVE Sorted(_)
Sorted(list) ==
  IF list = << >> THEN << >> ELSE InsertSorted(Sorted(SubSeq(list, 1, Len(list) - 1)), list[Len(list)])

\* bisect.bisect_right(a, x, lo, hi): binary search over the 0-based list a
RECURSIVE bisect_right(_, _, _, _)
bisect_right(a, x, lo, hi) ==
  IF lo >= hi THEN lo
  ELSE IF x < a[((lo + hi) \div 2) + 1]
         THEN bisect_right(a, x, lo, (lo + hi) \div 2)
         ELSE bisect_right(a, x, ((lo + hi) \div 2) + 1, hi)

\* a mapper that returns the position just left of the insertion point
mapper_BisectLeft(sorted_deadlines, t) ==
  Cardinality({ i \in DOMAIN sorted_deadlines : sorted_deadlines[i] < t })

\* the closure returned by build_gameweek_mapper
mapper(sorted_deadlines, t) == bisect_right(sorted_deadlines, t, 0, Len(sorted_deadlines))

InitMapper ==
  /\ IdleOtherThanMapper
  /\ gameweeks \in SeqsUpTo(1..MaxTime, MaxDeadlines)
  /\ event_time \in 0..(MaxTime + 1)
  /\ deadlines = << >>
  /\ gw_status = "new"
  /\ gw_eff = -1

\* build_gameweek_mapper(gameweeks)
BuildGameweekMapper ==
  /\ gw_status = "new"
  /\ deadlines' = Sorted(gameweeks)
  /\ gw_status' = IF Sorted(gameweeks) = << >> THEN "ValueError" ELSE "built"
  /\ UNCHANGED <<gameweeks, event_time, gw_eff, OtherThanMapper>>

\* mapper(event_time)
CallMapper ==
  /\ gw_status = "built"
  /\ gw_eff' = mapper(deadlines, event_time)
  /\ gw_status' = "mapped"
  /\ UNCHANGED <<gameweeks, deadlines, event_time, OtherThanMapper>>

NextMapper == BuildGameweekMapper \/ CallMapper

SpecMapper == InitMapper /\ [][NextMapper]_vars

(***************************************************************************)
(* Aggregate (src/fpl/aggregate.py) on its own: three accumulators, each   *)
(* created as a zero accumulator and merged with one observation           *)
(* Aggregate(v, 1) at a time, then merged with each other.                 *)
(***************************************************************************)
MaxObservations == 2
MaxValue == 2

NoMerge == [stage |-> "none"]

InitAggregate ==
  /\ IdleOtherThanAggregate
  /\ aggs = [k \in 1..3 |-> Aggregate(0, 0)]
  /\ merged = NoMerge

\* aggs[k] += Aggregate(v, 1)
Observe(k, v) ==
  /\ merged = NoMerge
  /\ aggs[k].count < MaxObservations
  /\ aggs' = [aggs EXCEPT ![k] = AggAdd(@, Aggregate(v, 1))]
  /\ UNCHANGED <<merged, OtherThanAggregate>>

\* a + b, b + a, (a + b) + c and a + (b + c)
MergeAll ==
  /\ merged = NoMerge
  /\ merged' = [stage |-> "merged",
                ab |-> AggAdd(aggs[1], aggs[2]),
                ba |-> AggAdd(aggs[2], aggs[1]),
                ab_c |-> AggAdd(AggAdd(aggs[1], aggs[2]), aggs[3]),
                a_bc |-> AggAdd(aggs[1], AggAdd(aggs[2], aggs[3]))]
  /\ UNCHANGED <<aggs, OtherThanAggregate>>

NextAggregate == (\E k \in 1..3 : \E v \in 0..MaxValue : Observe(k, v)) \/ MergeAll

SpecAggregate == InitAggregate /\ [][NextAggregate]_vars

(***************************************************************************)
(* Collection (src/fpl/collection.py).  The collection under test is       *)
(* PlayerFixtures (src/fpl/models/immutable.py) cut down to three fields,  *)
(* its simple index and two of its list indices.  A dict is a function     *)
(* from key tuples to values.                                              *)
(***************************************************************************)
MaxItems == 2

ItemFields == {"fixture_id", "gameweek", "player_id"}
KeyValues == {1, 2}
Items == [ItemFields -> KeyValues]

\* the field names in sorted() order
FieldOrder == <<"fixture_id", "gameweek", "player_id">>

\* BaseIndex.__init__: tuple(sorted(key_fields))
key_fields(names) == SelectSeq(FieldOrder, LAMBDA f : f \in names)

\* the indices PlayerFixtures declares, by key_fields
SimpleIndices == { key_fields({"fixture_id", "player_id"}) }
ListIndices == { key_fields({"player_id"}), key_fields({"gameweek"}) }

\* BaseIndex.key_value
key_value(kf, item) == [i \in DOMAIN kf |-> item[kf[i]]]

\* Collection.__init__
Collection_init ==
  [items |-> << >>,
   simple_indices |-> [kf \in SimpleIndices |-> << >>],
   list_indices |-> [kf \in ListIndices |-> << >>]]

\* SimpleIndex.add on the map of one index
SimpleIndex_add(map, kf, item) ==
  IF key_value(kf, item) \in DOMAIN map
    THEN [raised |-> "AssertionError", map |-> map]
    ELSE [raised |-> "none", map |-> (key_value(kf, item) :> item) @@ map]

\* ListIndex.add on the map of one index
ListIndex_add(map, kf, item) ==
  IF key_value(kf, item) \in DOMAIN map
    THEN [map EXCEPT ![key_value(kf, item)] = Append(@, item)]
    ELSE (key_value(kf, item) :> << item >>) @@ map

\* Collection.add: the item is appended, then indexed; a duplicate key of
\* the simple index ends the call before the list indices are reached
Collection_add(c, item) ==
  IF \E kf \in SimpleIndices : SimpleIndex_add(c.simple_indices[kf], kf, item).raised # "none"
    THEN [raised |-> "AssertionError",
          c |-> [c EXCEPT !.items = Append(@, item)]]
    ELSE [raised |-> "none",
          c |-> [items |-> Append(c.items, item),
                 simple_indices |-> [kf \in SimpleIndices |->
                                       SimpleIndex_add(c.simple_indices[kf], kf, item).map],
                 list_indices |-> [kf \in ListIndices |->
                                     ListIndex_add(c.list_indices[kf], kf, item)]]]

\* a lookup of an index that returns nothing for a key without entry
Index_get_Default(map, kf, keys) ==
  IF key_value(kf, keys) \in DOMAIN map
    THEN [raised |-> "none", value |-> map[key_value(kf, keys)]]
    ELSE [raised |-> "none", value |-> << >>]

\* SimpleIndex.get / ListIndex.get: self._map[key_values]
Index_get(map, kf, keys) ==
  IF key_value(kf, keys) \in DOMAIN map
    THEN [raised |-> "none", value |-> map[key_value(kf, keys)]]
    ELSE [raised |-> "KeyError", value |-> << >>]

\* IndexGroup.resolve_index followed by index.get
IndexGroup_get(indices, keys) ==
  IF key_fields(DOMAIN keys) \notin DOMAIN indices
    THEN [raised |-> "KeyError", value |-> << >>]
    ELSE Index_get(indices[key_fields(DOMAIN keys)], key_fields(DOMAIN keys), keys)

\* Collection.get_one
get_one(c, keys) == IndexGroup_get(c.simple_indices, keys)

\* Collection.get_list
get_list(c, keys) == IndexGroup_get(c.list_indices, keys)

\* the keyword arguments of a lookup: values for some of the fields
KeyArgs == UNION { [names -> KeyValues] : names \in (SUBSET ItemFields) \ {{}} }

NoQuery == [fn |-> "none"]

InitCollection ==
  /\ IdleOtherThanCollection
  /\ coll = Collection_init
  /\ add_raised = "none"
  /\ query = NoQuery

\* Collection.add(item)
CollectionAdd(item) ==
  /\ Len(coll.items) < MaxItems
  /\ add_raised = "none"
  /\ \E r \in { Collection_add(coll, item) } :
       /\ coll' = r.c
       /\ add_raised' = r.raised
  /\ query' = NoQuery
  /\ UNCHANGED OtherThanCollection

\* Collection.get_one(**keys)
GetOne(keys) ==
  /\ \E r \in { get_one(coll, keys) } :
       query' = [fn |-> "get_one", keys |-> keys, raised |-> r.raised, value |-> r.value]
  /\ UNCHANGED <<coll, add_raised, OtherThanCollection>>

\* Collection.get_list(**keys)
GetList(keys) ==
  /\ \E r \in { get_list(coll, keys) } :
       query' = [fn |-> "get_list", keys |-> keys, raised |-> r.raised, value |-> r.value]
  /\ UNCHANGED <<coll, add_raised, OtherThanCollection>>

NextCollection ==
  \/ \E item \in Items : CollectionAdd(item)
  \/ \E keys \in KeyArgs : GetOne(keys)
  \/ \E keys \in KeyArgs : GetList(keys)

SpecCollection == InitCollection /\ [][NextCollection]_vars

(***************************************************************************)
(* RotationAnalyzer (src/fpl/models/rotation.py).  A dict is a function    *)
(* whose domain holds the keys present; a MatchDetails object is named by  *)
(* its match_id in the entries that refer to it.                           *)
(***************************************************************************)
MaxSubs == 2

\* the deadline table behind gw_mapper
RotationDeadlines == <<5, 15>>

RotationPlayers == {21, 22, 23, 31, 32}
RotationPlayer(id) == FotmobPlayer(id, << "Player", id >>)

\* the substitutions a match of team 9825 may log
SubstitutionChoices ==
  { Substitution(RotationPlayer(21), RotationPlayer(22)),
    Substitution(RotationPlayer(22), RotationPlayer(21)),
    Substitution(RotationPlayer(21), RotationPlayer(23)),
    Substitution(RotationPlayer(23), RotationPlayer(22)) }

\* matches_by_team as a list of <<team id, matches>> in dict order: two
\* matches of team 9825 and one of team 10252
RotationMatches(subs1, league2, subs2) ==
  << <<9825,
       << [match_id |-> 1, event_time |-> 10, league_name |-> "Premier League",
           starters |-> << RotationPlayer(21) >>,
           benched |-> << RotationPlayer(22), RotationPlayer(23) >>,
           unavailable |-> << >>,
           subs_log |-> subs1],
          [match_id |-> 2, event_time |-> 20, league_name |-> league2,
           starters |-> << RotationPlayer(22), RotationPlayer(23) >>,
           benched |-> << RotationPlayer(21) >>,
           unavailable |-> << >>,
           subs_log |-> subs2] >> >>,
     <<10252,
       << [match_id |-> 3, event_time |-> 10, league_name |-> "Premier League",
           starters |-> << RotationPlayer(31) >>,
           benched |-> << RotationPlayer(32) >>,
           unavailable |-> << >>,
           subs_log |-> << Substitution(RotationPlayer(31), RotationPlayer(32)) >>] >> >> >>

\* defaultdict(list): d[k].append(v)
ListAppend(d, k, v) ==
  IF k \in DOMAIN d THEN [d EXCEPT ![k] = Append(@, v)] ELSE (k :> << v >>) @@ d

\* RotationAnalyzer.__init__ before _build_indexes
RotationAnalyzer_init ==
  [player_appearances |-> << >>, rival_events |-> << >>, player_names |-> << >>]

\* RotationAnalyzer._remember_player_name
remember_player_name(r, player) ==
  IF player.id \in DOMAIN r.player_names THEN r
  ELSE [r EXCEPT !.player_names = (player.id :> player.name) @@ @]

\* RotationAnalyzer._add_appearance
add_appearance(r, player, appearance_status, match, gw) ==
  [remember_player_name(r, player) EXCEPT
     !.player_appearances =
        ListAppend(@, player.id,
                   <<gw, [fotmob_player_id |-> player.id, status |-> appearance_status,
                              match |-> match.match_id]>>)]

RECURSIVE AddAppearances(_, _, _, _, _)
AddAppearances(r, players, appearance_status, match, gw) ==
  IF players = << >> THEN r
  ELSE AddAppearances(add_appearance(r, Head(players), appearance_status, match, gw),
                      Tail(players), appearance_status, match, gw)

\* RotationAnalyzer._register_appearances
register_appearances(r, match, gw) ==
  AddAppearances(
    AddAppearances(
      AddAppearances(r, match.starters, "STARTED", match, gw),
      match.benched, "BENCHED", match, gw),
    match.unavailable, "UNAVAILABLE", match, gw)

\* defaultdict(list): d[k].append(v) on a dict kept as a sequence of
\* <<key, list>> in insertion order
OrderedListAppend(d, k, v) ==
  IF \E i \in DOMAIN d : d[i][1] = k
    THEN [i \in DOMAIN d |-> IF d[i][1] = k THEN <<k, Append(d[i][2], v)>> ELSE d[i]]
    ELSE Append(d, <<k, << v >> >>)

\* RotationAnalyzer._add_rival_pair; the rivals of a player are kept in
\* insertion order
add_rival_pair(r, primary_id, rival_id, match, gw) ==
  [r EXCEPT !.rival_events =
     IF primary_id \in DOMAIN @
       THEN [@ EXCEPT ![primary_id] = OrderedListAppend(@, rival_id, <<gw, match.match_id>>)]
       ELSE (primary_id :> << <<rival_id, << <<gw, match.match_id>> >> >> >>) @@ @]

\* the body of the loop of _register_substitutions
register_substitution(r, substitution, match, gw) ==
  add_rival_pair(
    add_rival_pair(
      remember_player_name(remember_player_name(r, substitution.player_in), substitution.player_out),
      substitution.player_out.id, substitution.player_in.id, match, gw),
    substitution.player_in.id, substitution.player_out.id, match, gw)

\* a loop that records each substitution for the replaced player only
RECURSIVE register_substitutions_OneWay(_, _, _, _)
register_substitutions_OneWay(r, subs_log, match, gw) ==
  IF subs_log = << >> THEN r
  ELSE register_substitutions_OneWay(
         add_rival_pair(r, Head(subs_log).player_out.id, Head(subs_log).player_in.id, match, gw),
         Tail(subs_log), match, gw)

\* RotationAnalyzer._register_substitutions
RECURSIVE register_substitutions(_, _, _, _)
register_substitutions(r, subs_log, match, gw) ==
  IF subs_log = << >> THEN r
  ELSE register_substitutions(register_substitution(r, Head(subs_log), match, gw),
                              Tail(subs_log), match, gw)

\* one pass of the inner loop of _build_indexes
index_match(r, config, match, gw) ==
  IF config.included_leagues # {} /\ match.league_name \notin config.included_leagues
    THEN r
    ELSE register_substitutions(register_appearances(r, match, gw),
                                match.subs_log, match, gw)

RECURSIVE index_matches(_, _, _)
index_matches(r, config, team_matches) ==
  IF team_matches = << >> THEN r
  ELSE index_matches(
         index_match(r, config, Head(team_matches),
                     mapper(RotationDeadlines, Head(team_matches).event_time)),
         config, Tail(team_matches))

\* RotationAnalyzer._build_indexes
RECURSIVE build_indexes(_, _, _)
build_indexes(r, config, by_team) ==
  IF by_team = << >> THEN r
  ELSE build_indexes(index_matches(r, config, Head(by_team)[2]), config, Tail(by_team))

\* max_gameweek <= gw test of the queries; max_gameweek is << >> for None
\* and << g >> for the gameweek g
UpTo(gw, max_gameweek) == max_gameweek = << >> \/ gw <= max_gameweek[1]

\* [x for gw_eff, x in entries if max_gameweek is None or gw_eff <= max_gameweek]
RECURSIVE FilterUpTo(_, _)
FilterUpTo(entries, max_gameweek) ==
  IF entries = << >> THEN << >>
  ELSE IF UpTo(Head(entries)[1], max_gameweek)
         THEN << Head(entries)[2] >> \o FilterUpTo(Tail(entries), max_gameweek)
         ELSE FilterUpTo(Tail(entries), max_gameweek)

\* the number of appearances of a status
CountStatus(appearances, appearance_status) ==
  Cardinality({ i \in DOMAIN appearances : appearances[i].status = appearance_status })

\* PlayerSquadRole and its properties
PlayerSquadRole_start_ratio(appearances) ==
  IF Len(appearances) = 0 THEN RZero
  ELSE Rat(CountStatus(appearances, "STARTED"), Len(appearances))

PlayerSquadRole(fotmob_player_id, appearances, first_team_threshold) ==
  [fotmob_player_id |-> fotmob_player_id,
   appearances |-> appearances,
   starts |-> CountStatus(appearances, "STARTED"),
   benched |-> CountStatus(appearances, "BENCHED"),
   unavailable |-> CountStatus(appearances, "UNAVAILABLE"),
   total_matches |-> Len(appearances),
   start_ratio |-> PlayerSquadRole_start_ratio(appearances),
   is_first_team |-> ~RLess(PlayerSquadRole_start_ratio(appearances), first_team_threshold)]

\* self._player_appearances.get(fotmob_player_id, [])
AppearancesGet(r, fotmob_player_id) ==
  IF fotmob_player_id \in DOMAIN r.player_appearances
    THEN r.player_appearances[fotmob_player_id] ELSE << >>

\* a squad role that counts every appearance, whatever max_gameweek
get_player_squad_role_NoFilter(r, config, fotmob_player_id, max_gameweek) ==
  [raised |-> "none",
   value |-> PlayerSquadRole(fotmob_player_id,
                             FilterUpTo(AppearancesGet(r, fotmob_player_id), << >>),
                             config.first_team_start_ratio)]

\* RotationAnalyzer.get_player_squad_role
get_player_squad_role(r, config, fotmob_player_id, max_gameweek) ==
  [raised |-> "none",
   value |-> PlayerSquadRole(fotmob_player_id,
                             FilterUpTo(AppearancesGet(r, fotmob_player_id), max_gameweek),
                             config.first_team_start_ratio)]

\* self._rival_events.get(fotmob_player_id, {}).items()
RivalsGet(r, fotmob_player_id) ==
  IF fotmob_player_id \in DOMAIN r.rival_events THEN r.rival_events[fotmob_player_id] ELSE << >>

RivalSubDetail(rival_id, name, matches) ==
  [fotmob_player_id |-> rival_id, fotmob_name |-> name,
   sub_count |-> Len(matches), matches |-> matches]

\* the loop of get_rival_start_hint over the rivals, in dict order
RECURSIVE RivalDetails(_, _, _, _, _)
RivalDetails(r, config, rivals, max_gameweek, acc) ==
  IF rivals = << >> THEN [raised |-> "none", value |-> acc]
  ELSE IF Len(FilterUpTo(Head(rivals)[2], max_gameweek)) < config.min_subs_for_rival
         THEN RivalDetails(r, config, Tail(rivals), max_gameweek, acc)
  ELSE IF Head(rivals)[1] \notin DOMAIN r.player_names
         THEN [raised |-> "ValueError", value |-> << >>]
  ELSE RivalDetails(r, config, Tail(rivals), max_gameweek,
                    Append(acc, RivalSubDetail(Head(rivals)[1],
                                               r.player_names[Head(rivals)[1]],
                                               FilterUpTo(Head(rivals)[2], max_gameweek))))

\* an insertion that puts a detail before the details of the same count
RECURSIVE InsertByCount_BeforeTies(_, _)
InsertByCount_BeforeTies(sorted, detail) ==
  IF sorted = << >> THEN << detail >>
  ELSE IF Head(sorted).sub_count <= detail.sub_count THEN << detail >> \o sorted
  ELSE << Head(sorted) >> \o InsertByCount_BeforeTies(Tail(sorted), detail)

\* one insertion of the stable sort by -sub_count
RECURSIVE InsertByCount(_, _)
InsertByCount(sorted, detail) ==
  IF sorted = << >> THEN << detail >>
  ELSE IF Head(sorted).sub_count < detail.sub_count THEN << detail >> \o sorted
  ELSE << Head(sorted) >> \o InsertByCount(Tail(sorted), detail)

\* rival_details.sort(key=lambda detail: -detail.sub_count)
RECURSIVE SortByCount(_)
SortByCount(details) ==
  IF details = << >> THEN << >>
  ELSE InsertByCount(SortByCount(SubSeq(details, 1, Len(details) - 1)), details[Len(details)])

\* RivalStartHint built from the outcome of the loop
RivalStartHint(fotmob_player_id, details) ==
  IF details.raised # "none" THEN [raised |-> details.raised, value |-> << >>]
  ELSE [raised |-> "none",
        value |-> [player_fotmob_id |-> fotmob_player_id,
                   rivals_sorted |-> SortByCount(details.value)]]

\* RotationAnalyzer.get_rival_start_hint
get_rival_start_hint(r, config, fotmob_player_id, max_gameweek) ==
  RivalStartHint(fotmob_player_id,
                 RivalDetails(r, config, RivalsGet(r, fotmob_player_id), max_gameweek, << >>))

\* the RotationConfig choices: the defaults, and a stricter rival minimum
\* with a threshold that a start ratio can equal
RotationConfigs ==
  { [included_leagues |-> leagues, min_subs_for_rival |-> c[1], first_team_start_ratio |-> c[2]] :
      leagues \in {{"Premier League"}, {}}, c \in { <<1, <<4, 5>> >>, <<2, <<1, 2>> >> } }

\* the arguments of the queries; player 99 is in no match
QueryPlayers == {21, 22, 23, 31, 99}
MaxGameweekChoices == { << >>, <<0>>, <<1>>, <<2>> }

InitRotation ==
  /\ IdleOtherThanRotation
  /\ \E subs1 \in SeqsUpTo(SubstitutionChoices, MaxSubs) :
     \E subs2 \in SeqsUpTo(SubstitutionChoices, 1) :
     \E league2 \in {"Premier League", "FA Cup"} :
     \E config \in RotationConfigs :
       rotation_input =
         [stage |-> "given",
          matches_by_team |-> RotationMatches(subs1, league2, subs2),
          config |-> config]
  /\ rotation = [stage |-> "none"]
  /\ rotation_status = "new"
  /\ rotation_query = [fn |-> "none"]

\* RotationAnalyzer(matches_by_team, rotation_config, gw_mapper)
BuildRotationAnalyzer ==
  /\ rotation_status = "new"
  /\ rotation' = build_indexes(RotationAnalyzer_init, rotation_input.config,
                               rotation_input.matches_by_team)
  /\ rotation_status' = "built"
  /\ UNCHANGED <<rotation_input, rotation_query, OtherThanRotation>>

\* RotationAnalyzer.get_player_squad_role(fotmob_player_id, max_gameweek)
GetPlayerSquadRole(fotmob_player_id, max_gameweek) ==
  /\ rotation_status = "built"
  /\ \E q \in { get_player_squad_role(rotation, rotation_input.config, fotmob_player_id, max_gameweek) } :
       rotation_query' = [fn |-> "get_player_squad_role", player |-> fotmob_player_id,
                          max_gameweek |-> max_gameweek, raised |-> q.raised, value |-> q.value]
  /\ rotation_status' = "queried"
  /\ UNCHANGED <<rotation_input, rotation, OtherThanRotation>>

\* RotationAnalyzer.get_rival_start_hint(fotmob_player_id, max_gameweek)
GetRivalStartHint(fotmob_player_id, max_gameweek) ==
  /\ rotation_status = "built"
  /\ \E q \in { get_rival_start_hint(rotation, rotation_input.config, fotmob_player_id, max_gameweek) } :
       rotation_query' = [fn |-> "get_rival_start_hint", player |-> fotmob_player_id,
                          max_gameweek |-> max_gameweek, raised |-> q.raised, value |-> q.value]
  /\ rotation_status' = "queried"
  /\ UNCHANGED <<rotation_input, rotation, OtherThanRotation>>

NextRotation ==
  \/ BuildRotationAnalyzer
  \/ \E p \in QueryPlayers : \E mg \in MaxGameweekChoices : GetPlayerSquadRole(p, mg)
  \/ \E p \in QueryPlayers : \E mg \in MaxGameweekChoices : GetRivalStartHint(p, mg)

SpecRotation == InitRotation /\ [][NextRotation]_vars

(***************************************************************************)
(* Helpers of the properties.                                              *)
(***************************************************************************)
\* the entries of a gameweek-indexed list over gameweeks 1..gw, in order
RECURSIVE Flatten(_, _)
Flatten(fixtures, gw) ==
  IF gw = 0 THEN << >> ELSE Flatten(fixtures, gw - 1) \o fixtures[gw]

\* the number of entries x of a flattened list with sel[x]
CountIn(fl, sel) == Len(SelectSeq(fl, LAMBDA x : sel[x]))

RECURSIVE SumFdrCounts(_, _)
SumFdrCounts(sa, d) ==
  IF d = 0 THEN 0 ELSE sa.fdr_aggregate[d].count + SumFdrCounts(sa, d - 1)

\* every StatsAggregate of the Season: season-wide, per team, per player
AllStatsAggregates ==
  { season.stats[k] : k \in StatKinds }
    \cup { season.team_stats[t][k] : t \in Teams, k \in StatKinds }
    \cup { season.player_stats[pl][k] : pl \in Players, k \in PlayerStatKinds }

\* the last call of play was made with a fixture out of sequence at position i
\* fixture i of batch b is not of the gameweek after g
OutOfSequenceAt(b, g, i) == i \in DOMAIN b /\ Fixtures[b[i]].gameweek # g + 1

(***************************************************************************)
(* C1: in a Season with gameweek counter g, play(batch) raises whenever    *)
(* the batch holds a fixture whose gameweek is not g+1, at any position:   *)
(* a call that returns is a call of a batch without such a fixture.        *)
(***************************************************************************)
C1_OutOfSequenceRaises ==
  [][ (calls' = calls + 1 /\ raised' = "none")
        => \A b \in Batches :
             Play(b) => ~ \E i \in DOMAIN b : OutOfSequenceAt(b, season.gameweek, i) ]_vars

\* a call raised on a fixture that is not the first of its batch: the first
\* call on a new Season raised AssertionError after it had recorded a fixture
C1_Witness ==
  /\ calls = 1
  /\ raised = "AssertionError"
  /\ season.gameweek = 0
  /\ total(season.stats["xg_stats"]).count > 0

(***************************************************************************)
(* C2: every successful play increments the gameweek counter by exactly 1  *)
(* whatever the size of the batch, so after N successful calls on a new    *)
(* Season the counter is N.                                                *)
(***************************************************************************)
C2_GameweekCountsSuccessfulCalls == season.gameweek = played

\* three successful calls: one of a batch of two fixtures (gameweek 1), one
\* of a single fixture (gameweek 2) and one of an empty batch (gameweek 3)
C2_Witness ==
  /\ played = 3 /\ calls = 3 /\ season.gameweek = 3
  /\ Len(season.stats["xg_stats"].fixtures[1]) = 2
  /\ Len(season.stats["xg_stats"].fixtures[2]) = 1
  /\ Len(season.stats["xg_stats"].fixtures[3]) = 0

(***************************************************************************)
(* C3: a play that raises leaves the Season exactly as before the call.    *)
(***************************************************************************)
C3_RaisingPlayLeavesSeasonUnchanged ==
  [][ (calls' = calls + 1 /\ raised' # "none") => season' = season ]_vars

(***************************************************************************)
(* C4: for every StatsAggregate of the Season, total.count equals the sum  *)
(* of the five FDR bucket counts and equals home.count + away.count.       *)
(***************************************************************************)
C4_FdrBucketSum ==
  \A sa \in AllStatsAggregates :
    /\ total(sa).count = SumFdrCounts(sa, NumFdr)
    /\ total(sa).count = sa.side_aggregate["home"].count + sa.side_aggregate["away"].count

\* a Season that has received fixtures on both sides and in several buckets
C4_Witness ==
  /\ total(season.stats["xg_stats"]).count >= 4
  /\ \E t \in Teams :
       /\ season.team_stats[t]["clean_sheet_stats"].side_aggregate["home"].count >= 1
       /\ season.team_stats[t]["clean_sheet_stats"].side_aggregate["away"].count >= 1
  /\ \E pl \in Players : total(season.player_stats[pl]["xg_stats"]).count >= 2

(***************************************************************************)
(* C5 as stated: every aggregate, the season-wide ones included, has each  *)
(* fixture in exactly one side bucket, so its total.count is the number of *)
(* fixtures (appearances) it has received.                                 *)
(***************************************************************************)
C5_TotalCountIsFixturesReceived ==
  /\ \A k \in StatKinds :
       total(season.stats[k]).count = Len(Flatten(season.stats[k].fixtures, NumGameweeks))
  /\ \A t \in Teams, k \in StatKinds :
       total(season.team_stats[t][k]).count = Len(Flatten(season.team_stats[t][k].fixtures, NumGameweeks))
  /\ \A pl \in Players, k \in PlayerStatKinds :
       total(season.player_stats[pl][k]).count = Len(Flatten(season.player_stats[pl].fixtures, NumGameweeks))

\* the side and the difficulty with which team t takes part in fixture fid
TeamSideIn(fid, t) ==
  IF Fixtures[fid].home.team_id = t THEN "home"
  ELSE IF Fixtures[fid].away.team_id = t THEN "away" ELSE "neither"

TeamDifficultyIn(fid, t) ==
  IF Fixtures[fid].home.team_id = t THEN Fixtures[fid].home.difficulty
  ELSE IF Fixtures[fid].away.team_id = t THEN Fixtures[fid].away.difficulty ELSE 0

\* the side and the difficulty of player record i
RecordSide(i) == IF PlayerFixtures[i].was_home THEN "home" ELSE "away"

RecordDifficulty(i) ==
  IF PlayerFixtures[i].was_home
    THEN Fixtures[PlayerFixtures[i].fixture_id].home.difficulty
    ELSE Fixtures[PlayerFixtures[i].fixture_id].away.difficulty

(***************************************************************************)
(* C5 amended: a per-team or per-player aggregate holds each fixture or    *)
(* appearance in exactly one side bucket (the side the entity played) and  *)
(* one FDR bucket (that side's difficulty), so its total.count is the      *)
(* number received; a season-wide aggregate holds each fixture once in the *)
(* home bucket and once in the away bucket, and in the FDR bucket of each  *)
(* side's difficulty, so its total.count is twice the number of fixtures.  *)
(***************************************************************************)
C5_BucketRouting ==
  /\ \A t \in Teams, k \in StatKinds :
       \A sa \in { season.team_stats[t][k] } : \A fl \in { Flatten(sa.fixtures, NumGameweeks) } :
          /\ \A sd \in Sides :
               sa.side_aggregate[sd].count = CountIn(fl, [fid \in FixtureIds |-> TeamSideIn(fid, t) = sd])
          /\ \A d \in Fdrs :
               sa.fdr_aggregate[d].count = CountIn(fl, [fid \in FixtureIds |-> TeamDifficultyIn(fid, t) = d])
          /\ total(sa).count = Len(fl)
  /\ \A pl \in Players, k \in PlayerStatKinds :
       \A sa \in { season.player_stats[pl][k] } :
         \A fl \in { Flatten(season.player_stats[pl].fixtures, NumGameweeks) } :
          /\ \A sd \in Sides :
               sa.side_aggregate[sd].count = CountIn(fl, [i \in DOMAIN PlayerFixtures |-> RecordSide(i) = sd])
          /\ \A d \in Fdrs :
               sa.fdr_aggregate[d].count =
                 CountIn(fl, [i \in DOMAIN PlayerFixtures |-> RecordDifficulty(i) = d])
          /\ total(sa).count = Len(fl)
  /\ \A k \in StatKinds :
       \A sa \in { season.stats[k] } : \A fl \in { Flatten(sa.fixtures, NumGameweeks) } :
          /\ \A sd \in Sides : sa.side_aggregate[sd].count = Len(fl)
          /\ \A d \in Fdrs :
               sa.fdr_aggregate[d].count =
                 CountIn(fl, [fid \in FixtureIds |-> Fixtures[fid].home.difficulty = d])
                   + CountIn(fl, [fid \in FixtureIds |-> Fixtures[fid].away.difficulty = d])
          /\ total(sa).count = 2 * Len(fl)

\* a Season in which a team has played at home and away, a player has
\* appeared on both sides, and the season-wide aggregates hold fixtures
C5_Witness ==
  /\ \E t \in Teams :
       /\ season.team_stats[t]["xg_stats"].side_aggregate["home"].count >= 1
       /\ season.team_stats[t]["xg_stats"].side_aggregate["away"].count >= 1
  /\ \E pl \in Players :
       /\ season.player_stats[pl]["xg_stats"].side_aggregate["home"].count >= 1
       /\ season.player_stats[pl]["xg_stats"].side_aggregate["away"].count >= 1
  /\ Len(Flatten(season.stats["xg_stats"].fixtures, NumGameweeks)) >= 3

\* every rolling-window query of the Season, called with window n
WindowQueries(n) ==
  { cs_last(season, t, n) : t \in Teams }
    \cup { xg_form(season, t, n) : t \in Teams }
    \cup { xa_form(season, t, n) : t \in Teams }
    \cup { [raised |-> xg_form_norm(season, t, n, kind).raised] : t \in Teams, kind \in {"own", "season"} }
    \cup { [raised |-> xa_form_norm(season, t, n, kind).raised] : t \in Teams, kind \in {"own", "season"} }
    \cup { last(season, pl, n, metric) : pl \in Players, metric \in Metrics }

(***************************************************************************)
(* C6: the rolling-window queries raise if and only if n <= 0; for n > 0   *)
(* they return in every reachable Season state, gameweek 0 and any         *)
(* gameweek g < n included.                                                *)
(***************************************************************************)
C6_WindowRaisesIffNonPositiveN ==
  \A n \in (-1)..MaxN : \A r \in WindowQueries(n) : (r.raised # "none") <=> (n <= 0)

\* the number of entries of a gameweek-indexed list in gameweeks lo..hi
RECURSIVE CountWindow(_, _, _)
CountWindow(fixtures, lo, hi) ==
  IF hi < lo THEN 0 ELSE Len(fixtures[hi]) + CountWindow(fixtures, lo, hi - 1)

WindowAnswer(r, fx, n) ==
  IF n <= season.gameweek
    THEN /\ r.raised = "none"
         /\ r.count = CountWindow(fx, season.gameweek - n + 1, season.gameweek)
         /\ (\A gw \in (season.gameweek - n + 1)..season.gameweek : Len(fx[gw]) = 1) => r.count = n
    ELSE r.raised = "KeyError"

ItemAt(k) == WorkList(matches_by_team, 1)[k]

\* the player of the item is resolved by the fuzzy matcher: it has no override and its name has tokens
Fuzzy(item) ==
  /\ item[3] \notin { overrides[i].fotmob_player_id : i \in DOMAIN overrides }
  /\ tokenize(item[4]) # << >>

\* the score of candidate c of a roster for the item's name
ScoreOf(item, index, c) == BestScore(tokenize(item[4]), index[c])

SomePositive(item, index) == \E c \in DOMAIN index : ScoreOf(item, index, c) > 0

\* two or more candidates of the roster share its top score
TopTie(item, index) ==
  \E c1 \in DOMAIN index, c2 \in DOMAIN index :
    /\ c1 # c2
    /\ ScoreOf(item, index, c1) > 0
    /\ ScoreOf(item, index, c1) = ScoreOf(item, index, c2)
    /\ \A c \in DOMAIN index : ScoreOf(item, index, c) <= ScoreOf(item, index, c1)

\* candidate id scores strictly higher than every other candidate of the roster
StrictTop(item, index, id) ==
  /\ id \in DOMAIN index
  /\ ScoreOf(item, index, id) > 0
  /\ \A c \in DOMAIN index \ {id} : ScoreOf(item, index, c) < ScoreOf(item, index, id)

\* the roster the matcher searches for the item: the team's own roster, or
\* the global one when no candidate of the own roster scores > 0
Searched(item) ==
  IF SomePositive(item, name_index_of(item[1])) THEN name_index_of(item[1]) ELSE global_name_index

(***************************************************************************)
(* C8: the name resolver returns a candidate only when its score is        *)
(* strictly higher than every other candidate's of the roster searched;    *)
(* when two or more candidates tie at the top score the construction       *)
(* raises an ambiguity error and the step records no mapping.              *)
(***************************************************************************)
C8_StrictTopOrAmbiguity ==
  [][ (step' = step + 1 /\ Fuzzy(ItemAt(step')))
        => /\ TopTie(ItemAt(step'), Searched(ItemAt(step')))
                => /\ res'.kind = "ambiguous"
                   /\ status' = "failed"
                   /\ fotmob_to_fpl' = fotmob_to_fpl
                   /\ fpl_to_fotmob' = fpl_to_fotmob
           /\ res'.kind \in {"id", "conflict"}
                => StrictTop(ItemAt(step'), Searched(ItemAt(step')), res'.player_id) ]_vars

\* a construction stopped by a tie between two candidates of the roster searched
C8_Witness ==
  /\ step >= 1
  /\ Fuzzy(ItemAt(step))
  /\ res.kind = "ambiguous"
  /\ status = "failed"
  /\ TopTie(ItemAt(step), Searched(ItemAt(step)))
  /\ res.fotmob_player_id \notin DOMAIN fotmob_to_fpl

(***************************************************************************)
(* C9: matching is team-first.  When some candidate of the team's own      *)
(* roster scores > 0 the outcome (a match or an ambiguity error) is        *)
(* decided by the own roster alone; the global roster is searched only     *)
(* when no own candidate scores > 0; when no candidate of either roster    *)
(* scores > 0 the construction fails.                                      *)
(***************************************************************************)
C9_TeamFirst ==
  [][ (step' = step + 1 /\ Fuzzy(ItemAt(step')))
        => LET item == ItemAt(step')
               own == name_index_of(item[1])
           IN IF SomePositive(item, own)
                THEN /\ res'.roster = "team"
                     /\ IF TopTie(item, own) THEN res'.kind = "ambiguous"
                        ELSE /\ res'.kind \in {"id", "conflict"}
                             /\ StrictTop(item, own, res'.player_id)
              ELSE IF SomePositive(item, global_name_index)
                THEN /\ res'.roster = "global"
                     /\ IF TopTie(item, global_name_index) THEN res'.kind = "ambiguous"
                        ELSE /\ res'.kind \in {"id", "conflict"}
                             /\ StrictTop(item, global_name_index, res'.player_id)
              ELSE res'.kind = "no_candidate" /\ status' = "failed" ]_vars

\* a player matched through the global roster, its own team's roster having
\* no candidate with a positive score, after a player matched in its own team
C9_Witness ==
  /\ step >= 2
  /\ Fuzzy(ItemAt(step))
  /\ res.kind = "id"
  /\ res.roster = "global"
  /\ ~SomePositive(ItemAt(step), name_index_of(ItemAt(step)[1]))
  /\ res.player_id \notin players_by_team(ItemAt(step)[1])
  /\ \E b \in DOMAIN fotmob_to_fpl : b # res.fotmob_player_id /\ fotmob_to_fpl[b] \in players_by_team(1)

\* the score of query q against candidate c with the given bonuses for a
\* prefix and for a suffix match
ScoreFormula(q, c, prefixBonus, suffixBonus) ==
  LET shared == { t \in Tokens : (\E i \in DOMAIN q : q[i] = t) /\ (\E j \in DOMAIN c : c[j] = t) }
      prefix == Len(c) >= Len(q) /\ \A i \in 1..Len(q) : c[i] = q[i]
      suffix == Len(c) >= Len(q) /\ \A i \in 1..Len(q) : c[Len(c) - Len(q) + i] = q[i]
  IN IF shared = {} THEN 0
     ELSE Cardinality(shared)
            + (IF q[Len(q)] = c[Len(c)] THEN 5 ELSE 0)
            + (IF q[1] = c[1] THEN 3 ELSE IF FirstLetter[q[1]] = FirstLetter[c[1]] THEN 1 ELSE 0)
            + (IF suffix THEN suffixBonus ELSE 0)
            + (IF prefix THEN prefixBonus ELSE 0)

(***************************************************************************)
(* C10 as stated: the score is 0 without a shared token, and otherwise     *)
(* |shared| + 5 (last tokens equal) + 3 (first tokens equal, else 1 for    *)
(* equal first letters) + 4 for a suffix match + 2 for a prefix match.     *)
(***************************************************************************)
C10_ScoreSuffix4Prefix2 ==
  score # -1 => score = ScoreFormula(q_tokens, c_tokens, 2, 4)

(***************************************************************************)
(* C10 amended: the score is 0 without a shared token, and otherwise       *)
(* |shared| + 5 (last tokens equal) + 3 (first tokens equal, else 1 for    *)
(* equal first letters) + 4 for a prefix match (the candidate's tokens     *)
(* begin with the query's tokens) + 2 for a suffix match (the candidate's  *)
(* tokens end with the query's tokens).                                    *)
(***************************************************************************)
C10_ScorePrefix4Suffix2 ==
  score # -1 => score = ScoreFormula(q_tokens, c_tokens, 4, 2)

\* a score computed for a candidate that begins with the query but does not end with it
C10_Witness ==
  /\ score = 8
  /\ q_tokens = << "silva" >>
  /\ c_tokens = << "silva", "santos" >>

\* the FotMob player ids that the construction resolves
WorkIds == { WorkList(matches_by_team, 1)[k][3] : k \in DOMAIN WorkList(matches_by_team, 1) }

HasOverride(b) == b \in DOMAIN index_overrides(overrides)

\* FotMob player b has an override with ignore=False and a target id
Pinned(b) ==
  /\ HasOverride(b)
  /\ ~index_overrides(overrides)[b].ignore
  /\ index_overrides(overrides)[b].fpl_player_id # 0

\* FotMob player b has an override with ignore=True
Ignored(b) == HasOverride(b) /\ index_overrides(overrides)[b].ignore

PinnedTarget(b) == index_overrides(overrides)[b].fpl_player_id

(***************************************************************************)
(* C11: an override decides its player's resolution alone and before any   *)
(* fuzzy matching: the step that resolves a player with an override never  *)
(* calls the matcher, and when the construction completes a player pinned  *)
(* to t has fotmob_to_fpl[b] = t and fpl_to_fotmob[t] = b, and an ignored  *)
(* player is in neither map.                                               *)
(***************************************************************************)
C11_OverrideDecides ==
  [][ step' = step + 1
        => /\ HasOverride(ItemAt(step')[3]) => res'.roster = "override"
           /\ status' = "constructed"
                => \A b \in WorkIds :
                     /\ Pinned(b)
                          => /\ b \in DOMAIN fotmob_to_fpl'
                             /\ fotmob_to_fpl'[b] = PinnedTarget(b)
                             /\ PinnedTarget(b) \in DOMAIN fpl_to_fotmob'
                             /\ fpl_to_fotmob'[PinnedTarget(b)] = b
                     /\ Ignored(b)
                          => /\ b \notin DOMAIN fotmob_to_fpl'
                             /\ \A t \in DOMAIN fpl_to_fotmob' : fpl_to_fotmob'[t] # b ]_vars

\* the resolution of the item, when it has one: the target of its override,
\* or the strict top scorer of the roster the matcher searches
ResolvesTo(item, id) ==
  IF HasOverride(item[3]) THEN Pinned(item[3]) /\ id = PinnedTarget(item[3])
  ELSE Fuzzy(item) /\ StrictTop(item, Searched(item), id)

(***************************************************************************)
(* C12: when a FotMob player that already has a mapping is resolved again  *)
(* to a different FPL id the construction raises a conflict error and      *)
(* writes nothing; no step changes the FPL id recorded for a FotMob player.*)
(***************************************************************************)
C12_ConflictIsFatal ==
  [][ step' = step + 1
        => /\ \A b \in DOMAIN fotmob_to_fpl :
                b \in DOMAIN fotmob_to_fpl' /\ fotmob_to_fpl'[b] = fotmob_to_fpl[b]
           /\ ItemAt(step')[3] \in DOMAIN fotmob_to_fpl
                => \A id \in Players \cup { PinnedTarget(b) : b \in { c \in WorkIds : HasOverride(c) } } :
                     (ResolvesTo(ItemAt(step'), id) /\ id # fotmob_to_fpl[ItemAt(step')[3]])
                       => /\ res'.kind = "conflict"
                          /\ status' = "failed"
                          /\ fotmob_to_fpl' = fotmob_to_fpl
                          /\ fpl_to_fotmob' = fpl_to_fotmob ]_vars

\* a construction stopped by a player met under a second team and resolved
\* there to another FPL player than the one recorded under the first team
C12_Witness ==
  /\ status = "failed"
  /\ res.kind = "conflict"
  /\ res.fotmob_player_id \in DOMAIN fotmob_to_fpl
  /\ fotmob_to_fpl[res.fotmob_player_id] # res.player_id
  /\ ItemAt(step)[1] = 2

\* FotMob player b was resolved to FPL player t by some iteration of the construction
ResolvedAs(b, t) ==
  \E k \in DOMAIN WorkList(matches_by_team, 1) : ItemAt(k)[3] = b /\ ResolvesTo(ItemAt(k), t)

(***************************************************************************)
(* C13: on a constructed adapter get_fotmob_player_id and                  *)
(* get_fpl_player_id_from_fotmob raise KeyError for every id that no       *)
(* iteration of the construction resolved (ids under an ignore override    *)
(* included) and never answer a default; for a resolved id they return an  *)
(* id the construction recorded for it, the one held by the map.           *)
(***************************************************************************)
C13_LookupsRaiseWhenUnresolved ==
  /\ lookup.fn = "get_fpl_player_id_from_fotmob"
       => IF \E t \in Players \cup FplLookupIds : ResolvedAs(lookup.arg, t)
            THEN /\ lookup.raised = "none"
                 /\ ResolvedAs(lookup.arg, lookup.value)
                 /\ lookup.value = fotmob_to_fpl[lookup.arg]
            ELSE lookup.raised = "KeyError"
  /\ lookup.fn = "get_fotmob_player_id"
       => IF \E b \in WorkIds : ResolvedAs(b, lookup.arg)
            THEN /\ lookup.raised = "none"
                 /\ ResolvedAs(lookup.value, lookup.arg)
                 /\ lookup.value = fpl_to_fotmob[lookup.arg]
            ELSE lookup.raised = "KeyError"

\* a lookup of a FotMob player of the match data that an ignore override
\* excluded, on an adapter that resolved another player
C13_Witness ==
  /\ lookup.fn = "get_fpl_player_id_from_fotmob"
  /\ lookup.arg \in WorkIds
  /\ Ignored(lookup.arg)
  /\ lookup.raised = "KeyError"
  /\ fotmob_to_fpl # << >>

\* the deadlines later than the kickoff time
LaterDeadlines == { i \in DOMAIN deadlines : deadlines[i] > event_time }

\* the list the mapper holds is the deadline table in ascending order
IsSortedTable ==
  /\ Len(deadlines) = Len(gameweeks)
  /\ \A i \in 1..(Len(deadlines) - 1) : deadlines[i] <= deadlines[i + 1]
  /\ \A t \in 1..(MaxTime + 1) :
       Cardinality({ i \in DOMAIN deadlines : deadlines[i] = t })
         = Cardinality({ i \in DOMAIN gameweeks : gameweeks[i] = t })

C15_FailsWithoutQualifyingDeadline ==
  (gw_status \in {"built", "mapped"} /\ \A i \in DOMAIN deadlines : deadlines[i] < event_time)
    => gw_status # "mapped"

\* the teams of a fixture
TeamsOf(f) == {f.home.team_id, f.away.team_id}

\* the window PlayerCSSimpleModel is built with (last_n_weeks)
PlayerModelWindows == {1, 5}

(***************************************************************************)
(* C16: in every reachable Season state, a new Season and a Season with    *)
(* fewer replayed gameweeks than a model's window included, the prediction *)
(* of SimpleXGModel, SimpleDCModel and PlayerCSSimpleModel raises nothing  *)
(* for every fixture and every player fixture.                             *)
(***************************************************************************)
C16_PredictionsNeverRaise ==
  /\ \A fid \in FixtureIds : \A t \in TeamsOf(Fixtures[fid]) :
       /\ SimpleXGModel_predict_for_team(season, t, Fixtures[fid]).raised = "none"
       /\ SimpleDCModel_predict_for_team(season, t, Fixtures[fid]).raised = "none"
  /\ \A i \in DOMAIN PlayerFixtures : \A n \in PlayerModelWindows :
       PlayerCSSimpleModel_predict(season, PlayerFixtures[i], n).raised = "none"

\* the blend of two rates, the first weighted by c and the second by 38 - c
ShrinkageBlend(side_rate, c, all_rate) ==
  RDiv(RAdd(RMul(RInt(c), side_rate), RMul(RInt(38 - c), all_rate)), RInt(38))

\* 0.6 * rate of the FDR bucket + 0.4 * blend of the team's two rates
UltimateRatioFormula(fdr_agg, side_team_agg, total_team_agg) ==
  RAdd(RMul(<<3, 5>>, Aggregate_p(fdr_agg)),
       RMul(<<2, 5>>, ShrinkageBlend(Aggregate_p(side_team_agg), side_team_agg.count,
                                     Aggregate_p(total_team_agg))))

(***************************************************************************)
(* C17: for every team of every fixture, the ratio of the prediction of    *)
(* UltimateCleanSheetModel is 0.6 times the season-wide clean-sheet rate   *)
(* of the fixture's FDR bucket plus 0.4 times the blend of the team's      *)
(* side-specific rate, weighted by its count c, and the team's all-fixture *)
(* rate, weighted by 38 - c.                                               *)
(***************************************************************************)
C17_UltimateRatio ==
  \A fid \in FixtureIds : \A t \in TeamsOf(Fixtures[fid]) :
    \E r \in { UltimateCleanSheetModel_predict_for_team(season, t, Fixtures[fid]) } :
      /\ r.raised = "none"
      /\ FloatAggregate_p(Aggregate(r.total, r.count))
           = UltimateRatioFormula(
               AvgFDRCleanSheetModel_predict_for_team(season, t, Fixtures[fid]),
               season.team_stats[t]["clean_sheet_stats"].side_aggregate[OwnSide(Fixtures[fid], t)],
               total(season.team_stats[t]["clean_sheet_stats"]))

\* the sum of count * ratio over the first k Aggregates of items
RECURSIVE RatioMass(_, _)
RatioMass(items, k) ==
  IF k = 0 THEN RZero
  ELSE RAdd(RMul(RInt(items[k].count), Aggregate_p(items[k])), RatioMass(items, k - 1))

RECURSIVE CountSum(_, _)
CountSum(items, k) == IF k = 0 THEN 0 ELSE items[k].count + CountSum(items, k - 1)

\* the average of the ratios of items weighted by their counts, 0 when the
\* counts sum to 0
CountWeightedRatio(items) ==
  IF CountSum(items, Len(items)) = 0 THEN RZero
  ELSE RDiv(RatioMass(items, Len(items)), RInt(CountSum(items, Len(items))))

Matches(item, keys) == \A f \in DOMAIN keys : item[f] = keys[f]

\* the added items that agree with the keyword arguments
MatchingItems(keys) == { i \in DOMAIN coll.items : Matches(coll.items[i], keys) }

\* the index group a lookup function reads
GroupOf(fn) == IF fn = "get_one" THEN SimpleIndices ELSE ListIndices

(***************************************************************************)
(* C19: get_one and get_list raise KeyError for a combination of key       *)
(* fields without a declared index, get_one raises KeyError for key values *)
(* that no added item has, and a lookup that returns gives back added      *)
(* items that have the key values, never a default.                        *)
(***************************************************************************)
C19_LookupsRaiseKeyError ==
  query.fn \in {"get_one", "get_list"} =>
    /\ key_fields(DOMAIN query.keys) \notin GroupOf(query.fn) => query.raised = "KeyError"
    /\ (query.fn = "get_one" /\ MatchingItems(query.keys) = {}) => query.raised = "KeyError"
    /\ (query.raised = "none" /\ query.fn = "get_one") =>
         \E i \in MatchingItems(query.keys) : query.value = coll.items[i]
    /\ (query.raised = "none" /\ query.fn = "get_list") =>
         /\ query.value # << >>
         /\ \A k \in DOMAIN query.value :
              \E i \in MatchingItems(query.keys) : query.value[k] = coll.items[i]

\* a get_one of a declared index, for key values no item of a non-empty
\* collection has, that raised
C19_Witness ==
  /\ query.fn = "get_one"
  /\ key_fields(DOMAIN query.keys) \in SimpleIndices
  /\ Len(coll.items) = 2
  /\ MatchingItems(query.keys) = {}
  /\ \E i \in DOMAIN coll.items : coll.items[i].player_id = query.keys.player_id
  /\ query.raised = "KeyError"

\* self._rival_events.get(a, {}).get(b, [])
RivalEvents(a, b) ==
  IF a \in DOMAIN rotation.rival_events
       /\ \E i \in DOMAIN rotation.rival_events[a] : rotation.rival_events[a][i][1] = b
    THEN rotation.rival_events[a][CHOOSE i \in DOMAIN rotation.rival_events[a] :
                                    rotation.rival_events[a][i][1] = b][2]
    ELSE << >>

\* the match counts for the configured competitions
Allowed(match) ==
  \/ rotation_input.config.included_leagues = {}
  \/ match.league_name \in rotation_input.config.included_leagues

\* the substitution events between a and b: <<team index, match index, event index>>
EventsBetween(a, b) ==
  { e \in (1..2) \X (1..2) \X (1..MaxSubs) :
      /\ e[1] \in DOMAIN rotation_input.matches_by_team
      /\ e[2] \in DOMAIN rotation_input.matches_by_team[e[1]][2]
      /\ Allowed(rotation_input.matches_by_team[e[1]][2][e[2]])
      /\ e[3] \in DOMAIN rotation_input.matches_by_team[e[1]][2][e[2]].subs_log
      /\ {rotation_input.matches_by_team[e[1]][2][e[2]].subs_log[e[3]].player_out.id,
          rotation_input.matches_by_team[e[1]][2][e[2]].subs_log[e[3]].player_in.id} = {a, b} }

\* the (gameweek, match) entry of an event
EntryOf(e) ==
  << mapper(RotationDeadlines, rotation_input.matches_by_team[e[1]][2][e[2]].event_time),
     rotation_input.matches_by_team[e[1]][2][e[2]].match_id >>

\* the number of entries of list equal to entry
Occurrences(list, entry) == Cardinality({ i \in DOMAIN list : list[i] = entry })

(***************************************************************************)
(* C20: after the construction of a RotationAnalyzer, for every two        *)
(* players A and B the rival events recorded for A against B are the rival *)
(* events recorded for B against A, and they hold one (gameweek, match)    *)
(* entry per substitution between A and B in a match of an allowed         *)
(* competition.                                                            *)
(***************************************************************************)
C20_RivalEventsBidirectional ==
  rotation_status \in {"built", "queried"} =>
    \A a \in RotationPlayers : \A b \in RotationPlayers \ {a} :
      /\ RivalEvents(a, b) = RivalEvents(b, a)
      /\ Len(RivalEvents(a, b)) = Cardinality(EventsBetween(a, b))
      /\ \A e \in EventsBetween(a, b) :
           Occurrences(RivalEvents(a, b), EntryOf(e))
             = Cardinality({ x \in EventsBetween(a, b) : EntryOf(x) = EntryOf(e) })

\* players 21 and 22 replaced each other in both directions in a league
\* match and once more in a cup match that does not count
C20_Witness ==
  /\ rotation_status = "built"
  /\ rotation_input.config.included_leagues = {"Premier League"}
  /\ rotation_input.matches_by_team[1][2][2].league_name = "FA Cup"
  /\ rotation_input.matches_by_team[1][2][2].subs_log # << >>
  /\ RivalEvents(21, 22) = << <<1, 1>>, <<1, 1>> >>
  /\ RivalEvents(22, 21) = << <<1, 1>>, <<1, 1>> >>
  /\ RivalEvents(31, 32) = << <<1, 3>> >>
  /\ RivalEvents(21, 23) = << >>

\* the substitution events between a and b with gameweek up to max_gameweek
FilteredEvents(a, b, max_gameweek) ==
  { e \in EventsBetween(a, b) : UpTo(EntryOf(e)[1], max_gameweek) }

\* the place of an event in the order in which the matches are indexed
EventOrder(e) == e[1] * 100 + e[2] * 10 + e[3]

\* the place of the first substitution event between a and b
FirstEvent(a, b) ==
  CHOOSE n \in { EventOrder(e) : e \in EventsBetween(a, b) } :
    \A e \in EventsBetween(a, b) : n <= EventOrder(e)

\* the rivals of a that meet the configured minimum
QualifyingRivals(a, max_gameweek) ==
  { b \in RotationPlayers \ {a} :
      /\ EventsBetween(a, b) # {}
      /\ Cardinality(FilteredEvents(a, b, max_gameweek))
           >= rotation_input.config.min_subs_for_rival }

\* rivals_sorted lists the qualifying rivals of a, once each, with their
\* filtered counts, by count descending and ties in insertion order
IsRivalList(rs, a, max_gameweek) ==
  /\ { rs[i].fotmob_player_id : i \in DOMAIN rs } = QualifyingRivals(a, max_gameweek)
  /\ Len(rs) = Cardinality(QualifyingRivals(a, max_gameweek))
  /\ \A i \in DOMAIN rs :
       rs[i].sub_count = Cardinality(FilteredEvents(a, rs[i].fotmob_player_id, max_gameweek))
  /\ \A i \in DOMAIN rs : \A j \in DOMAIN rs :
       i < j => \/ rs[i].sub_count > rs[j].sub_count
                \/ /\ rs[i].sub_count = rs[j].sub_count
                   /\ FirstEvent(a, rs[i].fotmob_player_id) < FirstEvent(a, rs[j].fotmob_player_id)

(***************************************************************************)
(* C21: get_rival_start_hint(player, max_gameweek) returns exactly the     *)
(* rivals whose substitution events with gameweek <= max_gameweek (all of  *)
(* them when max_gameweek is None) number at least min_subs_for_rival,     *)
(* each with that count, by count descending with ties in insertion order; *)
(* the list is empty when no rival qualifies.                              *)
(***************************************************************************)
C21_RivalHint ==
  rotation_query.fn = "get_rival_start_hint" =>
    /\ rotation_query.raised = "none"
    /\ IsRivalList(rotation_query.value.rivals_sorted, rotation_query.player,
                   rotation_query.max_gameweek)

\* player 21 was replaced by 23 and then by 22 in gameweek 1 and met 22
\* again in gameweek 2: up to gameweek 1 the two rivals tie
C21_Witness ==
  /\ rotation_query.fn = "get_rival_start_hint"
  /\ rotation_query.player = 21
  /\ rotation_query.max_gameweek = <<1>>
  /\ rotation_query.raised = "none"
  /\ Len(rotation_query.value.rivals_sorted) = 2
  /\ rotation_query.value.rivals_sorted[1].fotmob_player_id = 23
  /\ rotation_query.value.rivals_sorted[2].fotmob_player_id = 22
  /\ rotation_query.value.rivals_sorted[2].sub_count = 1
  /\ Cardinality(EventsBetween(21, 22)) = 2

\* the appearance records of player a: <<team index, match index, list, place>>
AppearanceRecords(a, max_gameweek) ==
  { x \in (1..2) \X (1..2) \X {"starters", "benched", "unavailable"} \X (1..2) :
      /\ x[1] \in DOMAIN rotation_input.matches_by_team
      /\ x[2] \in DOMAIN rotation_input.matches_by_team[x[1]][2]
      /\ Allowed(rotation_input.matches_by_team[x[1]][2][x[2]])
      /\ UpTo(mapper(RotationDeadlines, rotation_input.matches_by_team[x[1]][2][x[2]].event_time),
              max_gameweek)
      /\ x[4] \in DOMAIN rotation_input.matches_by_team[x[1]][2][x[2]][x[3]]
      /\ rotation_input.matches_by_team[x[1]][2][x[2]][x[3]][x[4]].id = a }

RecordsIn(a, max_gameweek, list) ==
  Cardinality({ x \in AppearanceRecords(a, max_gameweek) : x[3] = list })

(***************************************************************************)
(* C22: get_player_squad_role(player, max_gameweek) counts exactly the     *)
(* appearance records of the player with gameweek <= max_gameweek (all of  *)
(* them when max_gameweek is None); starts + benched + unavailable is      *)
(* total_matches, start_ratio is starts / total_matches (0 when there is   *)
(* no match), and is_first_team holds exactly when start_ratio is at least *)
(* the configured threshold.                                               *)
(***************************************************************************)
C22_SquadRole ==
  rotation_query.fn = "get_player_squad_role" =>
    /\ rotation_query.raised = "none"
    /\ rotation_query.value.total_matches
         = Cardinality(AppearanceRecords(rotation_query.player, rotation_query.max_gameweek))
    /\ rotation_query.value.starts
         = RecordsIn(rotation_query.player, rotation_query.max_gameweek, "starters")
    /\ rotation_query.value.benched
         = RecordsIn(rotation_query.player, rotation_query.max_gameweek, "benched")
    /\ rotation_query.value.unavailable
         = RecordsIn(rotation_query.player, rotation_query.max_gameweek, "unavailable")
    /\ rotation_query.value.starts + rotation_query.value.benched
         + rotation_query.value.unavailable = rotation_query.value.total_matches
    /\ rotation_query.value.start_ratio
         = IF rotation_query.value.total_matches = 0 THEN RZero
           ELSE Rat(rotation_query.value.starts, rotation_query.value.total_matches)
    /\ rotation_query.value.is_first_team
         <=> rotation_query.value.start_ratio[1] * rotation_input.config.first_team_start_ratio[2]
               >= rotation_input.config.first_team_start_ratio[1] * rotation_query.value.start_ratio[2]

\* a player who started one of two matches, against a threshold of 1/2, and
\* whose later match is left out by max_gameweek
C22_Witness ==
  /\ rotation_query.fn = "get_player_squad_role"
  /\ rotation_input.config.first_team_start_ratio = <<1, 2>>
  /\ \/ /\ rotation_query.max_gameweek = <<2>>
        /\ rotation_query.value.total_matches = 2
        /\ rotation_query.value.start_ratio = <<1, 2>>
        /\ rotation_query.value.is_first_team
     \/ /\ rotation_query.max_gameweek = <<1>>
        /\ rotation_query.value.total_matches = 1
        /\ Cardinality(AppearanceRecords(rotation_query.player, << >>)) = 2
        /\ ~rotation_query.value.is_first_team

\* the player is in no appearance list and no substitution of an allowed match
NeverIndexed(a) ==
  /\ AppearanceRecords(a, << >>) = {}
  /\ \A b \in RotationPlayers : EventsBetween(a, b) = {}

(***************************************************************************)
(* C23: a squad role or a rival hint requested for a player that was never *)
(* indexed raises a not-found error; no defaulted view is returned.        *)
(***************************************************************************)
C23_NeverIndexedRaises ==
  (rotation_query.fn \in {"get_player_squad_role", "get_rival_start_hint"}
     /\ NeverIndexed(rotation_query.player))
    => rotation_query.raised # "none"

(***************************************************************************)
(* Calls of the forecast models on the Season under replay                 *)
(* (src/fpl/forecast/models.py).  A call returns the Season as the call    *)
(* left it together with what it returned; forecast holds the last call    *)
(* and the number of play() calls the Season had seen when it was made.    *)
(***************************************************************************)
ForecastModels == {"AvgFDRCleanSheetModel", "UltimateCleanSheetModel", "SimpleXGModel"}

\* what predict_for_team of the model returns
PredictionOf(s, model, team_id, f) ==
  CASE model = "AvgFDRCleanSheetModel" ->
         Return(AsFloat(AvgFDRCleanSheetModel_predict_for_team(s, team_id, f)))
    [] model = "UltimateCleanSheetModel" -> UltimateCleanSheetModel_predict_for_team(s, team_id, f)
    [] model = "SimpleXGModel" -> SimpleXGModel_predict_for_team(s, team_id, f)

\* a predict_for_team that empties the FDR bucket it has read
predict_for_team_Consuming(s, model, team_id, f) ==
  [s |-> [s EXCEPT !.stats["clean_sheet_stats"].fdr_aggregate[OwnDifficulty(f, team_id)] = Aggregate(0, 0)],
   out |-> PredictionOf(s, model, team_id, f)]

\* predict_for_team of the three models: no statement of them writes to the Season
predict_for_team(s, model, team_id, f) ==
  [s |-> s, out |-> PredictionOf(s, model, team_id, f)]

\* FixtureModel.predict: the home prediction, then the away prediction
FixtureModel_predict(s, model, f) ==
  LET home_prediction == predict_for_team(s, model, f.home.team_id, f)
      away_prediction == predict_for_team(home_prediction.s, model, f.away.team_id, f)
  IN  [s |-> away_prediction.s,
       out |-> [home_prediction |-> home_prediction.out, away_prediction |-> away_prediction.out]]

\* the fixture ids of a gameweek, in the order of the fixture list
GameweekFixtures(gw) == SelectSeq([i \in FixtureIds |-> i], LAMBDA i : Fixtures[i].gameweek = gw)

\* the batches of a replay: the fixtures of one gameweek
ReplayBatches == { GameweekFixtures(Fixtures[i].gameweek) : i \in FixtureIds }

ForecastCall(fn, model, fid, team_id, out) ==
  [fn |-> fn, model |-> model, fixture_id |-> fid, team_id |-> team_id, calls |-> calls, out |-> out]

InitForecast == SeasonNew /\ IdleOtherThanSeason

\* a call model.predict(fixture)
Predict(model, fid) ==
  /\ \E r \in { FixtureModel_predict(season, model, Fixtures[fid]) } :
       /\ season' = r.s
       /\ forecast' = ForecastCall("predict", model, fid, 0, r.out)
  /\ UNCHANGED << raised, calls, played, OtherThanSeasonAndForecast >>

\* a call model.predict_for_team(team_id, fixture)
PredictForTeam(model, fid, team_id) ==
  /\ \E r \in { predict_for_team(season, model, team_id, Fixtures[fid]) } :
       /\ season' = r.s
       /\ forecast' = ForecastCall("predict_for_team", model, fid, team_id, r.out)
  /\ UNCHANGED << raised, calls, played, OtherThanSeasonAndForecast >>

\* a call SimpleXGModel.scale_for_team(team_id, fixture)
ScaleForTeam(fid, team_id) ==
  /\ forecast' = ForecastCall("scale_for_team", "SimpleXGModel", fid, team_id,
                              [scale |-> scale_for_team(season, "xg_stats", team_id, Fixtures[fid])])
  /\ UNCHANGED << seasonVars, OtherThanSeasonAndForecast >>

NextForecast ==
  \/ \E b \in ReplayBatches : Play(b)
  \/ \E model \in ForecastModels : \E fid \in FixtureIds : Predict(model, fid)
  \/ \E model \in ForecastModels : \E fid \in FixtureIds : \E team_id \in TeamsOf(Fixtures[fid]) :
       PredictForTeam(model, fid, team_id)
  \/ \E fid \in FixtureIds : \E team_id \in TeamsOf(Fixtures[fid]) : ScaleForTeam(fid, team_id)

SpecForecast == InitForecast /\ [][NextForecast]_vars

\* the same call, made on a Season that has seen the same play() calls
SameCall(a, b) ==
  /\ a.fn = b.fn /\ a.model = b.model /\ a.fixture_id = b.fixture_id
  /\ a.team_id = b.team_id /\ a.calls = b.calls

MaxNodeCalls == 3

ParamValue(kind, items) == [kind |-> kind, items |-> items]

NextGameweekValues == { ParamValue("int", << g >>) : g \in 1..2 }
TargetGameweeksValues ==
  { ParamValue("list", << 1 >>), ParamValue("tuple", << 1 >>), ParamValue("list", << 1, 2 >>) }

\* the keyword parameters of a call, in both orders of writing them
ParamSets ==
  UNION { { << << "next_gameweek", n >>, << "target_gameweeks", t >> >>,
            << << "target_gameweeks", t >>, << "next_gameweek", n >> >> } :
          << n, t >> \in NextGameweekValues \X TargetGameweeksValues }

\* the order of the parameter names as strings
NameRank == [next_gameweek |-> 1, target_gameweeks |-> 2]

\* `if isinstance(v, list): v = tuple(v)`
Hashable(v) == IF v.kind = "list" THEN ParamValue("tuple", v.items) ELSE v

\* sorted(params.items()) for parameter names that are all different
SortedItems(params) ==
  LET n == Len(params)
      Before(i) == Cardinality({ j \in 1..n : NameRank[params[j][1]] < NameRank[params[i][1]] })
  IN  [ pos \in 1..n |-> params[CHOOSE i \in 1..n : Before(i) = pos - 1] ]

\* the cache key of LazyNode.__call__
cache_key(params) ==
  [ i \in 1..Len(params) |-> << SortedItems(params)[i][1], Hashable(SortedItems(params)[i][2]) >> ]

CacheKeys == { cache_key(params) : params \in ParamSets }

\* `cache_key in self._cache` and `self._cache[cache_key]`
InCache(c, key) == \E i \in 1..Len(c) : c[i][1] = key
CacheGet(c, key) == c[CHOOSE i \in 1..Len(c) : c[i][1] = key][2]

\* the number of compute() runs so far
ComputeRuns(log) == Cardinality({ i \in 1..Len(log) : log[i].computed })

\* compute(**params) of the node under test
compute(raises, key, log) ==
  IF key \in raises THEN [raised |-> "Exception", object |-> 0]
  ELSE [raised |-> "none", object |-> ComputeRuns(log) + 1]

InitNode ==
  /\ cache = << >>
  /\ node_log = << >>
  /\ compute_raises \in SUBSET CacheKeys
  /\ IdleOtherThanNode

\* LazyNode.__call__: a raise of compute() leaves the cache as it was
Call(params) ==
  /\ Len(node_log) < MaxNodeCalls
  /\ \E key \in { cache_key(params) } :
       IF InCache(cache, key)
       THEN /\ node_log' = Append(node_log, [op |-> "call", key |-> key, computed |-> FALSE,
                                             outcome |-> [raised |-> "none", object |-> CacheGet(cache, key)]])
            /\ UNCHANGED cache
       ELSE \E r \in { compute(compute_raises, key, node_log) } :
              /\ node_log' = Append(node_log, [op |-> "call", key |-> key, computed |-> TRUE, outcome |-> r])
              /\ cache' = IF r.raised = "none" THEN Append(cache, << key, r.object >>) ELSE cache
  /\ UNCHANGED << compute_raises, OtherThanNode >>

\* LazyNode.clear_cache
ClearCache ==
  /\ Len(node_log) < MaxNodeCalls
  /\ cache' = << >>
  /\ node_log' = Append(node_log, [op |-> "clear", key |-> << >>, computed |-> FALSE,
                                   outcome |-> [raised |-> "none", object |-> 0]])
  /\ UNCHANGED << compute_raises, OtherThanNode >>

NextNode ==
  \/ \E params \in ParamSets : Call(params)
  \/ ClearCache

SpecNode == InitNode /\ [][NextNode]_vars

\* no clear_cache between the events i and j of the log
NoClearBetween(i, j) == \A k \in i..j : node_log[k].op # "clear"

(***************************************************************************)
(* C25: in a sequence of calls on one node with no clear_cache in between, *)
(* compute() runs at most once for each cache key, and every later call    *)
(* with that key returns the result of that computation.                   *)
(***************************************************************************)
C25_AtMostOneComputation ==
  \A i, j \in 1..Len(node_log) :
    (i < j /\ NoClearBetween(i, j) /\ node_log[i].key = node_log[j].key /\ node_log[i].computed) =>
      /\ ~ node_log[j].computed
      /\ node_log[j].outcome = node_log[i].outcome

\* the sum of the team of the player over the window, as share_last reads it
TeamSum(player_id, n, metric) ==
  IF metric = "xg" THEN xg_form(season, PlayerTeam[player_id], n)
  ELSE xa_form(season, PlayerTeam[player_id], n)

(***************************************************************************)
(* C24: for a window of n gameweeks that can be summed, share_last(n,      *)
(* metric) is player_sum / team_sum, and it is 0, with nothing raised,     *)
(* whenever team_sum is 0, also when the team played fixtures in the       *)
(* window and its summed xG or xA over them is 0.                          *)
(***************************************************************************)
C24_ShareLast ==
  \A player_id \in Players : \A n \in 1..MaxN : \A metric \in {"xg", "xa"} :
    (n <= season.gameweek) =>
      \E r \in { share_last(season, player_id, n, metric) } :
        /\ r.raised = "none"
        /\ r.value = IF TeamSum(player_id, n, metric).total = 0 THEN RZero
                     ELSE Rat(last(season, player_id, n, metric).total,
                              TeamSum(player_id, n, metric).total)

(***************************************************************************)
(* SeasonNode.compute (src/fpl/compute/prediction.py) of a node without    *)
(* rotation adapter.  loaded holds the ids of the fixtures of the table    *)
(* that the Fixtures collection was filled with.                           *)
(***************************************************************************)
MaxNextGameweek == 4

\* the loaded fixtures of a gameweek, in the order they were added
LoadedOf(data, gw) ==
  SelectSeq([i \in FixtureIds |-> i], LAMBDA i : i \in data /\ Fixtures[i].gameweek = gw)

\* Query.fixtures_by_gameweek: Fixtures.get_list(gameweek=gw), a lookup of
\* the list index that raises for a gameweek without entry
fixtures_by_gameweek(data, gw) ==
  IF LoadedOf(data, gw) = << >>
    THEN [raised |-> "KeyError", value |-> << >>]
    ELSE [raised |-> "none", value |-> LoadedOf(data, gw)]

RECURSIVE SeasonNode_loop(_, _, _, _)
\* the loop after season.play(fixtures) ended as r
SeasonNode_played(r, data, gw, next_gameweek) ==
  IF r.raised # "none" THEN r ELSE SeasonNode_loop(r.s, data, gw + 1, next_gameweek)

\* the loop after the lookup of the fixtures of gw ended as fixtures
SeasonNode_step(s, fixtures, data, gw, next_gameweek) ==
  IF fixtures.raised # "none" THEN [s |-> s, raised |-> fixtures.raised]
  ELSE IF fixtures.value = << >> THEN SeasonNode_loop(s, data, gw + 1, next_gameweek)
  ELSE SeasonNode_played(play(s, fixtures.value), data, gw, next_gameweek)

\* `for gw in range(1, next_gameweek)` from gw on
SeasonNode_loop(s, data, gw, next_gameweek) ==
  IF gw >= next_gameweek THEN [s |-> s, raised |-> "none"]
  ELSE SeasonNode_step(s, fixtures_by_gameweek(data, gw), data, gw, next_gameweek)

\* SeasonNode.compute
SeasonNode_compute(data, next_gameweek) == SeasonNode_loop(Season_init, data, 1, next_gameweek)

InitReplay ==
  /\ loaded \in SUBSET FixtureIds
  /\ replayed = [stage |-> "none"]
  /\ IdleOtherThanReplay

\* a call SeasonNode.compute(next_gameweek=g)
SeasonNodeCompute(g) ==
  /\ \E r \in { SeasonNode_compute(loaded, g) } :
       replayed' = [stage |-> "computed", next_gameweek |-> g, raised |-> r.raised, s |-> r.s]
  /\ UNCHANGED << loaded, OtherThanReplay >>

NextReplay == \E g \in 1..MaxNextGameweek : SeasonNodeCompute(g)

SpecReplay == InitReplay /\ [][NextReplay]_vars

(***************************************************************************)
(* C28: SeasonNode.compute(next_gameweek = g) returns a Season with        *)
(* gameweek counter g - 1 whose fixture lists hold the fixtures of the     *)
(* gameweeks 1..g-1 and none of gameweek g or later, also when a gameweek  *)
(* in 1..g-1 has no fixtures.                                              *)
(***************************************************************************)
C28_ReplayUpToNextGameweek ==
  replayed.stage = "computed" =>
    /\ replayed.raised = "none"
    /\ replayed.s.gameweek = replayed.next_gameweek - 1
    /\ \A k \in StatKinds : \A gw \in Gameweeks :
         replayed.s.stats[k].fixtures[gw]
           = IF gw < replayed.next_gameweek THEN LoadedOf(loaded, gw) ELSE << >>

\* the added items that have the key values, in insertion order
MatchingList(keys) == SelectSeq(coll.items, LAMBDA item : Matches(item, keys))

(***************************************************************************)
(* C27: when every add has returned, get_list on a declared list index     *)
(* raises nothing; it returns the added items that have the requested key  *)
(* values, in insertion order, which is the empty list when no added item  *)
(* has them.                                                               *)
(***************************************************************************)
C27_GetListEmptyWhenNoMatch ==
  (query.fn = "get_list" /\ key_fields(DOMAIN query.keys) \in ListIndices /\ add_raised = "none") =>
    /\ query.raised = "none"
    /\ query.value = MatchingList(query.keys)

(***************************************************************************)
(* C29: when the construction has completed the two id maps are mutually   *)
(* inverse: fpl_to_fotmob[a] = b if and only if fotmob_to_fpl[b] = a, so   *)
(* no two FotMob players are mapped to the same FPL player.                *)
(***************************************************************************)
C29_MapsMutuallyInverse ==
  status = "constructed" =>
    /\ \A a \in DOMAIN fpl_to_fotmob :
         /\ fpl_to_fotmob[a] \in DOMAIN fotmob_to_fpl
         /\ fotmob_to_fpl[fpl_to_fotmob[a]] = a
    /\ \A b \in DOMAIN fotmob_to_fpl :
         /\ fotmob_to_fpl[b] \in DOMAIN fpl_to_fotmob
         /\ fpl_to_fotmob[fotmob_to_fpl[b]] = b

\* the list of fixture ids holds fixtures of gameweek gw only
OnlyOfGameweek(list, gw) == \A i \in DOMAIN list : Fixtures[list[i]].gameweek = gw

\* the list of player fixtures holds player fixtures of gameweek gw only
OnlyPlayerFixturesOfGameweek(list, gw) == \A i \in DOMAIN list : PlayerFixtures[list[i]].gameweek = gw

(***************************************************************************)
(* C30: in every Season state with gameweek counter g, each fixture list   *)
(* indexed by gameweek (season-wide, per team, per player) holds at index  *)
(* gw only fixtures of gameweek gw, and the lists of every gw > g are      *)
(* empty.                                                                  *)
(***************************************************************************)
C30_NoLookAhead ==
  \A gw \in Gameweeks :
    /\ \A k \in StatKinds :
         /\ OnlyOfGameweek(season.stats[k].fixtures[gw], gw)
         /\ gw > season.gameweek => season.stats[k].fixtures[gw] = << >>
    /\ \A t \in Teams : \A k \in StatKinds :
         /\ OnlyOfGameweek(season.team_stats[t][k].fixtures[gw], gw)
         /\ gw > season.gameweek => season.team_stats[t][k].fixtures[gw] = << >>
    /\ \A pl \in Players :
         /\ OnlyPlayerFixturesOfGameweek(season.player_stats[pl].fixtures[gw], gw)
         /\ gw > season.gameweek => season.player_stats[pl].fixtures[gw] = << >>

====
